---- MODULE Spec2Model ----
(***************************************************************************)
(* Model of the executor service of codepilot-platform:                    *)
(*   workspace/manager.py  create / delete / snapshot / restore            *)
(*   api/routes.py         the run_code route                              *)
(*   sandbox/runner.py     run_code, its worker and its timeout            *)
(*   sandbox/validator.py  the static import check                         *)
(*   sandbox/tools.py      the tool primitives a fragment calls            *)
(*   models.py             the observation text of an Execution Result     *)
(*   benchmark/run.py      the benchmark runner                            *)
(*   benchmark/evaluate.py the benchmark evaluator                         *)
(*                                                                         *)
(* The specifications share the variables and the handlers:                *)
(*   Spec      create, delete and the run_code route, one step per call,   *)
(*             on a file system of directories and files addressed by      *)
(*             canonical paths, with the workers a timeout abandons;       *)
(*   SpecSnap  the life of one workspace with its snapshots and restores;  *)
(*   SpecTools the tool primitives called by fragments of run_code:        *)
(*             file writes, run_command and apply_patch;                   *)
(*   SpecRun   one run_code call per slot, with its worker thread, the     *)
(*             process-wide sys.stdout and the supervisor's bounded wait   *)
(*             (FairRun adds the fairness of clock and threads);           *)
(*   SpecKey   restore with snapshot keys of the caller's choosing;        *)
(*   SpecValidate  the import check over fragments of one or two imports;  *)
(*   SpecObserve   to_observation over the results run_code can return;    *)
(*   SpecBench     main() of the benchmark runner;                         *)
(*   SpecEval      main() of the benchmark evaluator;                      *)
(*   SpecCreate    create_workspace calls served by two threads at once.   *)
(***************************************************************************)
EXTENDS Integers, Sequences, FiniteSets, TLC

VARIABLES
    dirs,       \* the directories that exist, as canonical paths
    files,      \* the files that exist: canonical path -> content
    now,        \* int(time.time()): the clock of the snapshot keys
    stranded,   \* workers abandoned by a timed-out run_code, still running
    last,       \* what the most recent step was and how it ended
    track,      \* the latest snapshot: its ref, key and the tree it captured
    call,       \* SpecRun: the run_code calls, one per slot
    worker,     \* SpecRun: the worker thread of each call
    buf,        \* SpecRun: stdout_buf of each call
    sysout,     \* SpecRun: sys.stdout, process-wide
    bench,      \* SpecBench: the benchmark runner's main()
    creating,   \* SpecCreate: the create_workspace calls in progress
    report      \* SpecEval: the benchmark evaluator's main()

vars == <<dirs, files, now, stranded, last, track, call, worker, buf, sysout, bench,
         creating, report>>

(***************************************************************************)
(* Bounds of the model.                                                    *)
(***************************************************************************)
MaxTime == 1        \* the clock runs over 0..MaxTime
MaxStranded == 1    \* abandoned workers alive at once
MaxTimeout == 2     \* timeout_sec ranges over 1..MaxTimeout
MaxScratch == 1     \* scratch files of apply_patch that can exist at once
MaxPolls == 2       \* polls of one job before its deadline

(***************************************************************************)
(* Paths.  A name is a sequence of tokens, a path a sequence of names, and *)
(* str(path) the tokens of "/name/name..." - so that str.startswith is the *)
(* prefix test on token sequences.  No token is a string prefix of         *)
(* another, which makes the token prefix test the string prefix test.      *)
(***************************************************************************)
IsPrefix(s, t) == Len(s) <= Len(t) /\ SubSeq(t, 1, Len(s)) = s

RECURSIVE Str(_)
Str(p) ==
    IF p = <<>> THEN <<"/">>
    ELSE IF Len(p) = 1 THEN <<"/">> \o p[1]
    ELSE Str(SubSeq(p, 1, Len(p) - 1)) \o <<"/">> \o p[Len(p)]

DOTDOT == <<"..">>

\* Path.resolve(): ".." steps to the parent, the root is its own parent.
RECURSIVE ResolveFrom(_, _)
ResolveFrom(done, rest) ==
    IF rest = <<>> THEN done
    ELSE IF Head(rest) = DOTDOT
         THEN ResolveFrom(IF done = <<>> THEN <<>> ELSE SubSeq(done, 1, Len(done) - 1),
                          Tail(rest))
         ELSE ResolveFrom(Append(done, Head(rest)), Tail(rest))

Resolve(p) == ResolveFrom(<<>>, p)

\* base / ref of pathlib: an absolute ref replaces the base.
JoinPath(base, ref) == IF ref.abs THEN ref.segs ELSE base \o ref.segs

TMP == <<"tmp">>
CW == <<"codepilot-workspaces">>
WORKSPACE_BASE == <<TMP, CW>>
SNAPSHOTS_DIR == WORKSPACE_BASE \o << <<"snapshots">> >>

StartsWith(s, prefix) == IsPrefix(prefix, s)

\* _safe_workspace_path: [ok |-> FALSE] is the ValueError.
SafeWorkspacePath(workspace_ref) ==
    LET base == Resolve(WORKSPACE_BASE)
        resolved == Resolve(JoinPath(base, workspace_ref))
    IN  [ok |-> StartsWith(Str(resolved), Str(base)), path |-> resolved]

(***************************************************************************)
(* The file system: fs = [d |-> directories, f |-> path -> content].       *)
(***************************************************************************)
Text(v) == [kind |-> "text", v |-> v]
PartialArchive == [kind |-> "partial"]

Under(root, p) == IsPrefix(root, p)
Parent(p) == SubSeq(p, 1, Len(p) - 1)
Ancestors(p) == {SubSeq(p, 1, i) : i \in 0..Len(p)}

Exists(fs, p) == p \in fs.d \/ p \in DOMAIN fs.f
IsDir(fs, p) == p \in fs.d

Restrict(f, S) == [x \in S |-> f[x]]

\* a removal that takes the snapshot archives with it
RmTreeAndArchives(fs, p) ==
    [d |-> {x \in fs.d : ~Under(p, x)},
     f |-> Restrict(fs.f, {x \in DOMAIN fs.f :
                             ~Under(p, x) /\ ~Under(SNAPSHOTS_DIR, x)})]

\* shutil.rmtree(p)
RmTree(fs, p) ==
    [d |-> {x \in fs.d : ~Under(p, x)},
     f |-> Restrict(fs.f, {x \in DOMAIN fs.f : ~Under(p, x)})]

\* Path.mkdir(parents=True, exist_ok=True)
MkdirP(fs, p) == [d |-> fs.d \cup Ancestors(p), f |-> fs.f]

PutFile(fs, p, c) ==
    [d |-> fs.d,
     f |-> [x \in DOMAIN fs.f \cup {p} |-> IF x = p THEN c ELSE fs.f[x]]]

RemoveFile(fs, p) == [d |-> fs.d, f |-> Restrict(fs.f, DOMAIN fs.f \ {p})]

\* The subtree at p, its members named relative to `top` (a prefix of p).
Rel(top, x) == SubSeq(x, Len(top) + 1, Len(x))
SubTree(fs, top, p) ==
    LET ds == {x \in fs.d : Under(p, x)}
        fl == {x \in DOMAIN fs.f : Under(p, x)}
    IN  [d |-> {Rel(top, x) : x \in ds},
         f |-> [r \in {Rel(top, x) : x \in fl} |-> fs.f[top \o r]]]

FsNow == [d |-> dirs, f |-> files]

(***************************************************************************)
(* Inputs of the service calls.                                            *)
(***************************************************************************)
Ref(segs) == [abs |-> FALSE, segs |-> segs]
RefA == Ref(<< <<"a">> >>)                      \* "a"
RefB == Ref(<< <<"b">> >>)                      \* "b"
RefDot == Ref(<<>>)                             \* "." : the base itself
RefSibling == Ref(<<DOTDOT, CW \o <<"_old">> >>) \* "../codepilot-workspaces_old"
RefUp == Ref(<<DOTDOT, <<"o">> >>)              \* "../o"
RefAbs == [abs |-> TRUE, segs |-> << <<"o">> >>] \* "/o"
RefAB == Ref(<< <<"a", "b">> >>)                \* "ab"

ShaLen == 40
GitRefs == {[len |-> ShaLen, hex |-> TRUE],     \* a full commit hash
            [len |-> 4, hex |-> FALSE],         \* "main"
            [len |-> ShaLen, hex |-> FALSE]}    \* 40 characters, not all hex

\* how a subprocess ends: "ok", "fail" (non-zero exit), "timeout", "nobin"
Git(clone, checkout, partial) == [clone |-> clone, checkout |-> checkout, partial |-> partial]
GitOk == Git("ok", "ok", FALSE)
GitOutcomes == {GitOk,
                Git("fail", "ok", TRUE), Git("fail", "ok", FALSE),
                Git("timeout", "ok", TRUE), Git("nobin", "ok", FALSE),
                Git("ok", "fail", FALSE), Git("ok", "timeout", FALSE)}
Tar(run, left) == [run |-> run, left |-> left]
TarOk == Tar("ok", FALSE)
TarOutcomes == {TarOk, Tar("fail", TRUE), Tar("fail", FALSE), Tar("timeout", TRUE),
                Tar("nobin", FALSE)}

README == <<"f">>

(***************************************************************************)
(* workspace/manager.py                                                    *)
(***************************************************************************)
\* _run: the exception a subprocess outcome raises ("none": it returns).
RunExc(outcome) ==
    CASE outcome = "ok" -> "none"
      [] outcome = "fail" -> "RuntimeError"
      [] outcome = "timeout" -> "TimeoutExpired"
      [] outcome = "nobin" -> "FileNotFoundError"

LooksLikeSha(git_ref) == git_ref.len = ShaLen /\ git_ref.hex

\* git clone <repo_url> <workspace_dir>: the directory with the checked-out tree.
GitClone(fs, workspace_dir) ==
    PutFile(MkdirP(fs, workspace_dir), Append(workspace_dir, README), Text("v1"))

\* What a clone that did not succeed leaves behind.
GitCloneFailed(fs, workspace_dir, git) ==
    IF git.partial /\ git.clone # "nobin" THEN MkdirP(fs, workspace_dir) ELSE fs

\* create without the cleanup of its except clause
LeaveFailedCreate(fs, workspace_dir) == fs

\* except Exception: shutil.rmtree(workspace_dir, ignore_errors=True)
CleanupFailedCreate(fs, workspace_dir) == RmTree(fs, workspace_dir)

CreateWorkspace(fs, workspace_ref, git_ref, git) ==
    LET sp == SafeWorkspacePath(workspace_ref)
        workspace_dir == sp.path
        fs1 == MkdirP(fs, WORKSPACE_BASE)
    IN  IF ~sp.ok THEN [exc |-> "ValueError", fs |-> fs]
        ELSE IF Exists(fs, workspace_dir) THEN [exc |-> "FileExistsError", fs |-> fs]
        ELSE IF git.clone # "ok"
             THEN [exc |-> RunExc(git.clone),
                   fs |-> CleanupFailedCreate(GitCloneFailed(fs1, workspace_dir, git),
                                              workspace_dir)]
        ELSE IF LooksLikeSha(git_ref) /\ git.checkout # "ok"
             THEN [exc |-> RunExc(git.checkout),
                   fs |-> CleanupFailedCreate(GitClone(fs1, workspace_dir), workspace_dir)]
        ELSE [exc |-> "none", fs |-> GitClone(fs1, workspace_dir)]

\* delete that reports success and removes nothing
DeleteWorkspaceKeeps(fs, workspace_ref) ==
    IF SafeWorkspacePath(workspace_ref).ok
    THEN [exc |-> "none", fs |-> fs]
    ELSE [exc |-> "ValueError", fs |-> fs]

DeleteWorkspace(fs, workspace_ref) ==
    LET sp == SafeWorkspacePath(workspace_ref)
        workspace_dir == sp.path
    IN  IF ~sp.ok THEN [exc |-> "ValueError", fs |-> fs]
        ELSE IF ~Exists(fs, workspace_dir) THEN [exc |-> "FileNotFoundError", fs |-> fs]
        ELSE IF ~IsDir(fs, workspace_dir) THEN [exc |-> "NotADirectoryError", fs |-> fs]
        ELSE [exc |-> "none", fs |-> RmTree(fs, workspace_dir)]

NoKey == <<>>

\* a key without the timestamp
SnapshotKeyOfRef(workspace_ref, t) == workspace_ref.segs

\* f"{workspace_ref}-{int(time.time())}", as the path segments of that string
SnapshotKey(workspace_ref, t) ==
    LET segs == workspace_ref.segs
        stamp == <<"-", ToString(t)>>
    IN  IF segs = <<>> THEN <<stamp>>
        ELSE SubSeq(segs, 1, Len(segs) - 1) \o <<segs[Len(segs)] \o stamp>>

\* SNAPSHOTS_DIR / f"{snapshot_key}.tar.gz", as the file system resolves it
ArchivePath(snapshot_key) ==
    LET n == Len(snapshot_key)
    IN  Resolve(SNAPSHOTS_DIR \o SubSeq(snapshot_key, 1, n - 1)
                \o <<snapshot_key[n] \o <<".tar.gz">> >>)

\* tar -czf <snapshot_path> -C WORKSPACE_BASE <workspace_ref>
TarCreate(fs, workspace_dir) ==
    LET t == SubTree(fs, WORKSPACE_BASE, workspace_dir)
    IN  [kind |-> "tar", d |-> t.d, f |-> t.f]

SnapshotWorkspace(fs, workspace_ref, t, tar) ==
    LET sp == SafeWorkspacePath(workspace_ref)
        workspace_dir == sp.path
        fs1 == MkdirP(fs, SNAPSHOTS_DIR)
        snapshot_key == SnapshotKey(workspace_ref, t)
        snapshot_path == ArchivePath(snapshot_key)
    IN  IF ~sp.ok THEN [exc |-> "ValueError", key |-> NoKey, fs |-> fs]
        ELSE IF ~Exists(fs, workspace_dir)
             THEN [exc |-> "FileNotFoundError", key |-> NoKey, fs |-> fs]
        ELSE IF tar.run # "ok"
             THEN [exc |-> RunExc(tar.run), key |-> snapshot_key,
                   fs |-> IF tar.left /\ tar.run # "nobin"
                          THEN PutFile(fs1, snapshot_path, PartialArchive)
                          ELSE fs1]
        ELSE [exc |-> "none", key |-> snapshot_key,
              fs |-> PutFile(fs1, snapshot_path, TarCreate(fs1, workspace_dir))]

\* tar -xzf <snapshot_path> -C WORKSPACE_BASE
TarExtract(fs, archive) ==
    [d |-> fs.d \cup {WORKSPACE_BASE \o r : r \in archive.d},
     f |-> [x \in DOMAIN fs.f \cup {WORKSPACE_BASE \o r : r \in DOMAIN archive.f} |->
              IF Rel(WORKSPACE_BASE, x) \in DOMAIN archive.f /\ Under(WORKSPACE_BASE, x)
              THEN archive.f[Rel(WORKSPACE_BASE, x)]
              ELSE fs.f[x]]]

\* An extraction that stopped part-way: the directories, not yet the files.
TarExtractPart(fs, archive) ==
    [d |-> fs.d \cup {WORKSPACE_BASE \o r : r \in archive.d}, f |-> fs.f]

\* restore without the removal of the current directory
KeepCurrent(fs, workspace_dir) == fs

\* if workspace_dir.exists(): shutil.rmtree(workspace_dir)
RemoveCurrent(fs, workspace_dir) ==
    IF Exists(fs, workspace_dir) THEN RmTree(fs, workspace_dir) ELSE fs

RestoreWorkspace(fs, workspace_ref, snapshot_key, tar) ==
    LET snapshot_path == ArchivePath(snapshot_key)
        sp == SafeWorkspacePath(workspace_ref)
        workspace_dir == sp.path
        fs1 == RemoveCurrent(fs, workspace_dir)
    IN  IF ~Exists(fs, snapshot_path) THEN [exc |-> "FileNotFoundError", fs |-> fs]
        ELSE IF ~sp.ok THEN [exc |-> "ValueError", fs |-> fs]
        ELSE IF snapshot_path \notin DOMAIN fs1.f \/ tar.run = "nobin"
             THEN [exc |-> IF tar.run = "nobin" THEN "FileNotFoundError"
                           ELSE "RuntimeError", fs |-> fs1]
        ELSE IF fs1.f[snapshot_path].kind # "tar"
             THEN [exc |-> IF tar.run = "timeout" THEN "TimeoutExpired"
                           ELSE "RuntimeError", fs |-> fs1]
        ELSE IF tar.run # "ok"
             THEN [exc |-> RunExc(tar.run),
                   fs |-> IF tar.left THEN TarExtractPart(fs1, fs1.f[snapshot_path])
                          ELSE fs1]
        ELSE [exc |-> "none", fs |-> TarExtract(fs1, fs1.f[snapshot_path])]

(***************************************************************************)
(* Code fragments.  A fragment is what the validator sees of it (whether   *)
(* it parses, its import statements) and what it does when executed: the   *)
(* tool calls and prints it makes, in order, and how it ends.              *)
(***************************************************************************)
Import(names) == [kind |-> "import", names |-> names, level |-> 0]
FromImport(module, level) == [kind |-> "from", names |-> <<module>>, level |-> level]
NoModule == <<>>    \* node.module of "from . import x"

\* An operation names the file it is about by a path relative to the workspace.
\* A run_command operation carries its command vector and how the process,
\* if one is started, ends: "ok", "fail", "timeout", "nobin".
Op(k, path, v, cmd, outcome) ==
    [k |-> k, path |-> path, v |-> v, cmd |-> cmd, outcome |-> outcome]
Write(name, v) == Op("write", <<name>>, v, <<>>, "")
WriteTo(path, v) == Op("write", path, v, <<>>, "")
\* apply_patch with a diff that deletes one file; the outcome is "ok",
\* "fail" or "timeout" of git apply, or "writeerr" of writing the diff.
Patch(name, outcome) == Op("delete", <<name>>, "", <<>>, outcome)
Delete(name) == Patch(name, "ok")
Echo(v) == Op("print", <<>>, v, <<>>, "")
RunCmd(cmd, outcome) == Op("run", <<>>, "", cmd, outcome)
\* print(git_status()) and print(git_diff()), with how the git process ends
PrintGit(tool, outcome) == Op(tool, <<>>, "", <<>>, outcome)
\* print(<name>): the fragment looks a name up and prints what it is bound to
PrintName(name) == Op("name", <<>>, name, <<>>, "")

\* The exception a fragment ends with.
EndExc(end) ==
    CASE end = "raise" -> "ZeroDivisionError"
      [] end = "raise_timeout" -> "TimeoutError"
      [] end = "exit" -> "SystemExit"
      [] OTHER -> "none"

Fragment(parse, imports, ops, end) ==
    [parse |-> parse, imports |-> imports, ops |-> ops, end |-> end]

\* What exec runs: the import statements at the top of the fragment, then
\* its operations.
ImportStmt == Op("import", <<>>, "", <<>>, "")
Statements(code) == [k \in 1..Len(code.imports) |-> ImportStmt] \o code.ops

(***************************************************************************)
(* sandbox/validator.py                                                    *)
(***************************************************************************)
ALLOWED_MODULES ==
    {<<"os">>, <<"subprocess">>, <<"pathlib">>, <<"json">>, <<"re">>, <<"shutil">>,
     <<"difflib">>, <<"textwrap">>, <<"xml">>, <<"xml", "etree">>,
     <<"xml", "etree", "ElementTree">>, <<"collections">>, <<"itertools">>,
     <<"functools">>, <<"tempfile">>, <<"typing">>}

\* _check_module: TRUE when it raises SecurityError.  root = split(".")[0]
CheckModuleRaises(module_name) ==
    LET root == <<Head(module_name)>> IN root \notin ALLOWED_MODULES

\* a walk that looks at the first name of a statement only
NodeRaisesFirstName(node) ==
    node.names[1] # NoModule /\ CheckModuleRaises(node.names[1])

\* What one node of ast.walk contributes.
NodeRaises(node) ==
    IF node.kind = "import"
    THEN \E i \in 1..Len(node.names) : CheckModuleRaises(node.names[i])
    ELSE node.names[1] # NoModule /\ CheckModuleRaises(node.names[1])

\* validate_imports: the exception it raises, or "none"
ValidateImports(code) ==
    IF ~code.parse THEN "SyntaxError"
    ELSE IF \E i \in 1..Len(code.imports) : NodeRaises(code.imports[i])
         THEN "SecurityError"
    ELSE "none"

(***************************************************************************)
(* sandbox/tools.py: the primitives a fragment's operations call           *)
(***************************************************************************)
\* build_tools._safe_path: [ok |-> FALSE] is the PermissionError.
SafePath(ws, relative) ==
    LET resolved == Resolve(ws \o relative)
    IN  [ok |-> StartsWith(Str(resolved), Str(ws)), path |-> resolved]

\* write_file(path, content)
WriteFileTool(fs, ws, relative, content) ==
    LET sp == SafePath(ws, relative)
        target == sp.path
    IN  IF ~sp.ok THEN [exc |-> "PermissionError", fs |-> fs]
        ELSE IF target \in fs.d THEN [exc |-> "IsADirectoryError", fs |-> fs]
        ELSE [exc |-> "none",
              fs |-> PutFile(MkdirP(fs, Parent(target)), target, Text(content))]

\* tempfile.NamedTemporaryFile(suffix=".patch", delete=False): a name in the
\* temporary directory that no file has yet
ScratchName(n) == [i \in 1..n |-> "x"] \o <<".patch">>
ScratchPaths == {<<TMP, ScratchName(n)>> : n \in 1..MaxScratch}
ScratchFree(fs) == \E p \in ScratchPaths : p \notin DOMAIN fs.f
FreshScratch(fs) == CHOOSE p \in ScratchPaths : p \notin DOMAIN fs.f

\* apply_patch(diff) with a diff that deletes one file: the diff is written
\* to a scratch file, git apply runs in ws, `finally` unlinks the scratch file
ApplyPatchTool(fs, ws, relative, outcome) ==
    LET target == Resolve(ws \o relative)
        patch_path == FreshScratch(fs)
        created == PutFile(fs, patch_path, Text(""))
        written == PutFile(fs, patch_path, Text("diff"))
        finally(exc, after) == [exc |-> exc, fs |-> RemoveFile(after, patch_path)]
    IN  IF outcome = "writeerr" THEN [exc |-> "TypeError", fs |-> created]
        ELSE IF ws \notin fs.d THEN finally("FileNotFoundError", written)
        ELSE IF outcome = "timeout" THEN finally("TimeoutExpired", written)
        ELSE IF outcome = "fail" \/ target \notin DOMAIN fs.f
        THEN finally("none", written)
        ELSE finally("none", RemoveFile(written, target))

\* git_status() / git_diff(): subprocess.run(["git", ...], cwd=ws,
\* capture_output=True, text=True, timeout=15); return r.stdout.  A git that
\* exits non-zero has written its message to stderr, and stdout is empty.
GitTextTool(fs, ws, tool, outcome) ==
    IF ws \notin fs.d \/ outcome = "nobin"
    THEN [exc |-> "FileNotFoundError", fs |-> fs, text |-> ""]
    ELSE IF outcome = "timeout"
    THEN [exc |-> "TimeoutExpired", fs |-> fs, text |-> ""]
    ELSE IF outcome = "fail"
    THEN [exc |-> "none", fs |-> fs, text |-> ""]
    ELSE [exc |-> "none", fs |-> fs, text |-> "output of " \o tool]

PrintGitOp(fs, ws, tool, outcome) ==
    LET r == GitTextTool(fs, ws, tool, outcome)
    IN  [exc |-> r.exc, fs |-> r.fs, started |-> <<>>,
         out |-> IF r.exc = "none" THEN <<r.text>> ELSE <<>>]

ALLOWED_COMMANDS == {"mvn", "./gradlew", "java", "git", "rg"}

\* a process started by subprocess.run
Process(cwd, argv) == [cwd |-> cwd, argv |-> argv]

\* run_command without its two checks
RunCommandUnchecked(fs, ws, cmd, outcome) ==
    [exc |-> "none", fs |-> fs, started |-> <<Process(ws, cmd)>>]

\* run_command(cmd): `started` is the process it starts, if any
RunCommandTool(fs, ws, cmd, outcome) ==
    IF cmd = <<>> THEN [exc |-> "ValueError", fs |-> fs, started |-> <<>>]
    ELSE IF cmd[1] \notin ALLOWED_COMMANDS
    THEN [exc |-> "PermissionError", fs |-> fs, started |-> <<>>]
    ELSE IF ws \notin fs.d \/ outcome = "nobin"
    THEN [exc |-> "FileNotFoundError", fs |-> fs, started |-> <<>>]
    ELSE [exc |-> IF outcome = "timeout" THEN "TimeoutExpired" ELSE "none",
          fs |-> fs, started |-> <<Process(ws, cmd)>>]

(***************************************************************************)
(* sandbox/runner.py: the globals a fragment is executed with.  An object  *)
(* is named by where it comes from: "builtins.exec", "tools.read_file",    *)
(* "safe_open".                                                            *)
(***************************************************************************)
BLOCKED_BUILTINS ==
    {"__import__", "eval", "exec", "compile", "open", "input", "memoryview",
     "breakpoint"}

\* vars(builtins): the blocked names and some of the others
BuiltinNames ==
    BLOCKED_BUILTINS \cup {"print", "len", "getattr", "TimeoutError", "__build_class__",
                           "__loader__"}
Builtin(name) == "builtins." \o name

\* the default builtins with `open` replaced and nothing removed
BuildAllBuiltins(workspace_dir) ==
    [k \in BuiltinNames |-> IF k = "open" THEN "safe_open" ELSE Builtin(k)]

\* _build_safe_builtins
BuildSafeBuiltins(workspace_dir) ==
    LET safe == [k \in BuiltinNames \ BLOCKED_BUILTINS |-> Builtin(k)]
    IN  [k \in DOMAIN safe \cup {"open"} |-> IF k = "open" THEN "safe_open" ELSE safe[k]]

\* the dict build_tools returns
ToolNames ==
    {"read_file", "write_file", "list_files", "search_code", "git_status", "git_diff",
     "apply_patch", "git_reset", "run_command"}
BuildTools(workspace_dir) == [k \in ToolNames |-> "tools." \o k]

\* sandbox_globals = {"__builtins__": ..., **tools}
SandboxGlobals(workspace_dir) ==
    [builtins |-> BuildSafeBuiltins(workspace_dir),
     globals |-> [k \in ToolNames \cup {"__builtins__"} |->
                    IF k = "__builtins__" THEN "safe_builtins"
                    ELSE BuildTools(workspace_dir)[k]]]

\* how exec resolves a name: the globals, then __builtins__, else NameError
NoObject == "NameError"
Lookup(env, name) ==
    IF name \in DOMAIN env.globals THEN env.globals[name]
    ELSE IF name \in DOMAIN env.builtins THEN env.builtins[name]
    ELSE NoObject

PrintNameOp(fs, ws, name) ==
    LET obj == Lookup(SandboxGlobals(ws), name)
    IN  IF obj = NoObject
        THEN [exc |-> "NameError", fs |-> fs, out |-> <<>>, started |-> <<>>]
        ELSE [exc |-> "none", fs |-> fs, out |-> <<obj>>, started |-> <<>>]

\* an import statement: the interpreter calls __builtins__["__import__"],
\* and raises ImportError ("__import__ not found") when there is none
ImportOp(fs, ws) ==
    IF "__import__" \in DOMAIN BuildSafeBuiltins(ws)
    THEN [exc |-> "none", fs |-> fs, out |-> <<>>, started |-> <<>>]
    ELSE [exc |-> "ImportError", fs |-> fs, out |-> <<>>, started |-> <<>>]

\* One operation of a fragment; `out` is what it prints, `started` the
\* processes it starts.
ExecOp(fs, ws, op) ==
    CASE op.k = "write" ->
           WriteFileTool(fs, ws, op.path, op.v) @@ [out |-> <<>>, started |-> <<>>]
      [] op.k = "delete" ->
           ApplyPatchTool(fs, ws, op.path, op.outcome)
             @@ [out |-> <<>>, started |-> <<>>]
      [] op.k = "run" ->
           RunCommandTool(fs, ws, op.cmd, op.outcome) @@ [out |-> <<>>]
      [] op.k = "name" -> PrintNameOp(fs, ws, op.v)
      [] op.k = "import" -> ImportOp(fs, ws)
      [] op.k \in {"git_status", "git_diff"} -> PrintGitOp(fs, ws, op.k, op.outcome)
      [] OTHER -> [exc |-> "none", fs |-> fs, out |-> <<op.v>>, started |-> <<>>]

\* The operations of `ops` in order, up to the first that raises.
RECURSIVE ExecOps(_, _, _)
ExecOps(fs, ws, ops) ==
    IF ops = <<>> THEN [exc |-> "none", fs |-> fs, out |-> <<>>, started |-> <<>>]
    ELSE LET r == ExecOp(fs, ws, Head(ops))
         IN  IF r.exc # "none" THEN r
             ELSE LET t == ExecOps(r.fs, ws, Tail(ops))
                  IN  [exc |-> t.exc, fs |-> t.fs, out |-> r.out \o t.out,
                       started |-> r.started \o t.started]

(***************************************************************************)
(* The run_code route, as one step of the service.  Whether the fragment   *)
(* ends before timeout_sec has elapsed is the caller's clock against the   *)
(* worker's speed: `intime` says it does, and otherwise the supervisor     *)
(* gives up after `cut` operations and the worker keeps running.           *)
(***************************************************************************)
None == "None"
\* ExecutionResult; stdout is the lines printed, each with the call it came from
Result(exit_code, stdout, stderr, error_type) ==
    [exit_code |-> exit_code, stdout |-> stdout, stderr |-> stderr,
     error_type |-> error_type]
NoRes == Result(-1, <<>>, "", "n/a")
Line(by, v) == [by |-> by, v |-> v]
Lines(by, out) == [k \in 1..Len(out) |-> Line(by, out[k])]

\* traceback.format_exc() of an exception of type exc
Traceback(exc) == "Traceback: " \o exc

\* run_code from future.result() on, `run` being what the worker did: the
\* two except clauses and the result.  `alias`: concurrent.futures.TimeoutError
\* is the builtin TimeoutError (it is from Python 3.11 on, and a class of its
\* own before).
RunCodeEnd(code, run, cut, intime, alias) ==
    LET stdout == Lines(0, run.out)
        raised == IF run.exc # "none" THEN run.exc
                  ELSE IF intime THEN EndExc(code.end) ELSE "none"
        ended(exc, res, rest) ==
            [exc |-> exc, res |-> res, fs |-> run.fs, rest |-> rest,
             started |-> run.started]
    IN  IF raised = "SystemExit"
        THEN ended("SystemExit", NoRes, <<>>)
        ELSE IF raised = "TimeoutError" /\ alias
        THEN ended("none", Result(1, stdout, "timed out", "TIMEOUT"), <<>>)
        ELSE IF raised # "none"
        THEN ended("none", Result(1, stdout, Traceback(raised), None), <<>>)
        ELSE IF intime
        THEN ended("none", Result(0, stdout, "", None), <<>>)
        ELSE ended("none", Result(1, stdout, "timed out", "TIMEOUT"),
                   SubSeq(Statements(code), cut + 1, Len(Statements(code))))

\* run_code: validation, then the fragment in its worker
RunCodeStep(fs, code, workspace_dir, cut, intime, alias) ==
    LET v == ValidateImports(code)
        ws == Resolve(workspace_dir)
        n == IF intime THEN Len(Statements(code)) ELSE cut
    IN  IF v = "SyntaxError"
        THEN [exc |-> "none", res |-> Result(1, <<>>, "SyntaxError", "SYNTAX_ERROR"),
              fs |-> fs, rest |-> <<>>, started |-> <<>>]
        ELSE IF v = "SecurityError"
        THEN [exc |-> "none", res |-> Result(1, <<>>, "SecurityError", "POLICY_VIOLATION"),
              fs |-> fs, rest |-> <<>>, started |-> <<>>]
        ELSE RunCodeEnd(code, ExecOps(fs, ws, SubSeq(Statements(code), 1, n)), cut, intime,
                        alias)

\* handle_run_code: WORKSPACE_BASE / ref, mkdir(parents, exist_ok), run_code
HandleRunCode(fs, workspace_ref, code, cut, intime, alias) ==
    LET workspace_dir == Resolve(JoinPath(WORKSPACE_BASE, workspace_ref))
    IN  IF workspace_dir \in DOMAIN fs.f
        THEN [exc |-> "FileExistsError", res |-> NoRes, fs |-> fs, rest |-> <<>>,
              started |-> <<>>]
        ELSE RunCodeStep(MkdirP(fs, workspace_dir), code, workspace_dir, cut, intime,
                         alias)

(***************************************************************************)
(* models.py: ExecutionResult.to_observation.  Here a text is the sequence *)
(* of its characters: NL the newline, SP the space, any other token a      *)
(* visible piece of text.                                                  *)
(***************************************************************************)
NL == "\\n"
SP == " "
Whitespace == {NL, SP}

RECURSIVE RStrip(_)
RStrip(s) ==
    IF s # <<>> /\ s[Len(s)] \in Whitespace THEN RStrip(SubSeq(s, 1, Len(s) - 1)) ELSE s

RECURSIVE LStrip(_)
LStrip(s) == IF s # <<>> /\ Head(s) \in Whitespace THEN LStrip(Tail(s)) ELSE s

\* a strip that removes nothing
NoStrip(s) == s

\* str.strip()
Strip(s) == LStrip(RStrip(s))

\* sep.join(parts)
RECURSIVE Join(_, _)
Join(parts, sep) ==
    IF parts = <<>> THEN <<>>
    ELSE IF Len(parts) = 1 THEN parts[1]
    ELSE parts[1] \o sep \o Join(Tail(parts), sep)

\* `if self.error_type:` - neither None nor the empty string
Truthy(error_type) == error_type \notin {None, ""}

ToObservation(res) ==
    LET out == IF Strip(res.stdout) # <<>>
               THEN << <<"stdout:", NL>> \o RStrip(res.stdout) >> ELSE <<>>
        err == IF Strip(res.stderr) # <<>>
               THEN << <<"stderr:", NL>> \o RStrip(res.stderr) >> ELSE <<>>
        streams == IF out \o err = <<>> THEN << <<"(no output)">> >> ELSE out \o err
        exit == << <<"exit_code: ", ToString(res.exit_code)>> >>
        kind == IF Truthy(res.error_type)
                THEN << <<"error_type: ", res.error_type>> >> ELSE <<>>
    IN  Join(streams \o exit \o kind, <<NL, NL>>)

NoObs == [of |-> NoRes, text |-> <<>>]

(***************************************************************************)
(* api/routes.py: the answer of a route to what its manager call raised.   *)
(* `detail` says whether the body is the {detail} of an HTTPException; an  *)
(* exception that no except clause of the route names leaves the handler   *)
(* and the server answers 500 without one.                                 *)
(***************************************************************************)
Http(status_code, detail) == [status_code |-> status_code, detail |-> detail]
Unhandled == Http(500, FALSE)

handle_create(exc) ==
    CASE exc = "none" -> Http(200, FALSE)
      [] exc = "FileExistsError" -> Http(409, TRUE)
      [] exc = "RuntimeError" -> Http(500, TRUE)
      [] exc = "ValueError" -> Http(400, TRUE)
      [] OTHER -> Unhandled

handle_snapshot(exc) ==
    CASE exc = "none" -> Http(200, FALSE)
      [] exc = "FileNotFoundError" -> Http(404, TRUE)
      [] exc = "RuntimeError" -> Http(500, TRUE)
      [] exc = "ValueError" -> Http(400, TRUE)
      [] OTHER -> Unhandled

handle_restore(exc) ==
    CASE exc = "none" -> Http(200, FALSE)
      [] exc = "FileNotFoundError" -> Http(404, TRUE)
      [] exc = "RuntimeError" -> Http(500, TRUE)
      [] exc = "ValueError" -> Http(400, TRUE)
      [] OTHER -> Unhandled

handle_delete(exc) ==
    CASE exc = "none" -> Http(200, FALSE)
      [] exc = "FileNotFoundError" -> Http(404, TRUE)
      [] exc = "ValueError" -> Http(400, TRUE)
      [] OTHER -> Unhandled

NoHttp == Http(0, FALSE)
RouteResponse(op, exc) ==
    CASE op = "create" -> handle_create(exc)
      [] op = "snapshot" -> handle_snapshot(exc)
      [] op = "restore" -> handle_restore(exc)
      [] op = "delete" -> handle_delete(exc)
      [] op = "run_code" -> IF exc = "none" THEN Http(200, FALSE) ELSE Unhandled
      [] OTHER -> NoHttp

(***************************************************************************)
(* Spec: the service, one step per call.                                   *)
(***************************************************************************)
NoRef == Ref(<< <<"none">> >>)
EmptyTree == [d |-> {}, f |-> <<>>]
EmptyFs == [d |-> {<<>>}, f |-> <<>>]
NoTrack == [on |-> FALSE, ref |-> NoRef, key |-> NoKey, tree |-> EmptyTree,
            dirty |-> FALSE, gone |-> FALSE, at |-> 0]

NoCode == Fragment(TRUE, <<>>, <<>>, "done")

\* `code` and `started` are given by the steps that run code, `proc` (how
\* the git or tar process ended, "none" when the call starts none) by the
\* steps of the workspace routes.
Step(op, ref, key, exc, res, fs) ==
    [op |-> op, ref |-> ref, key |-> key, exc |-> exc, res |-> res,
     touched |-> fs # FsNow, code |-> NoCode, started |-> <<>>,
     http |-> RouteResponse(op, exc), proc |-> "none", obs |-> NoObs]

WorkspaceTree(fs, ref) == SubTree(fs, WORKSPACE_BASE, SafeWorkspacePath(ref).path)

\* The tracked snapshot stays current over code actions on its workspace.
Tracked(fs) ==
    IF track.on
    THEN [track EXCEPT !.dirty = @ \/ WorkspaceTree(fs, track.ref) # track.tree]
    ELSE track

FsFragments ==
    {Fragment(FALSE, <<>>, <<>>, "done"),
     Fragment(TRUE, <<Import(<< <<"socket">> >>)>>, <<Write(README, "v2")>>, "done"),
     Fragment(TRUE, <<>>, <<Write(README, "v2")>>, "done"),
     Fragment(TRUE, <<>>, <<Write(README, "v2")>>, "hang")}

SnapFragments ==
    {Fragment(TRUE, <<>>, <<Write(README, "v2")>>, "done"),
     Fragment(TRUE, <<>>, <<Delete(README)>>, "done")}

\* "../a/f": with ".tar.gz" appended it names the file f.tar.gz of workspace "a"
KeyUp == <<DOTDOT, <<"a">>, README>>
RestoreKeys == {SnapshotKey(RefA, t) : t \in 0..MaxTime}

Slots == {1, 2}
IdleCall == [pc |-> "idle", code |-> NoCode, timeout_sec |-> 0, elapsed |-> 0,
             res |-> NoRes, prior |-> {}]
NoWorker == [pc |-> "none", ops |-> <<>>, end |-> "done", exc |-> "none", saved |-> 0]
RealStdout == 0

\* the threads that serve create requests, and one that serves none yet
Creators == {1, 2}
NoCreate ==
    [pc |-> "idle", ref |-> NoRef, git_ref |-> [len |-> 0, hex |-> FALSE],
     exc |-> "none", raced |-> FALSE]

\* the evaluator before main() starts
NoReport == [pc |-> "idle", results |-> <<>>, rows |-> <<>>, pass_count |-> 0, total |-> 0]

\* the runner before main() starts
NoBench ==
    [pc |-> "idle", tasks |-> <<>>, i |-> 0, job |-> "", polls |-> 0,
     results |-> <<>>, saved |-> FALSE, file |-> <<>>]

InitRunVars ==
    /\ call = [i \in Slots |-> IdleCall]
    /\ worker = [i \in Slots |-> NoWorker]
    /\ buf = [i \in Slots |-> <<>>]
    /\ sysout = RealStdout

runvars == <<call, worker, buf, sysout>>

Init ==
    /\ dirs = {<<>>, <<TMP>>}
    /\ files = <<>>
    /\ now = 0
    /\ stranded = <<>>
    /\ last = Step("init", NoRef, NoKey, "none", NoRes, [d |-> dirs, f |-> files])
    /\ track = NoTrack
    /\ InitRunVars
    /\ bench = NoBench
    /\ creating = [c \in Creators |-> NoCreate]
    /\ report = NoReport

\* Inputs that the handler never reads are not enumerated twice.
MainRef == [len |-> 4, hex |-> FALSE]
ReachesGit(ref) ==
    SafeWorkspacePath(ref).ok /\ ~Exists(FsNow, SafeWorkspacePath(ref).path)
ReachesTar(ref) ==
    SafeWorkspacePath(ref).ok /\ Exists(FsNow, SafeWorkspacePath(ref).path)
ReachesUntar(ref, key) ==
    SafeWorkspacePath(ref).ok /\ Exists(FsNow, ArchivePath(key))

Create(ref, git_ref, git) ==
    /\ ReachesGit(ref) \/ (git_ref = MainRef /\ git = GitOk)
    /\ LooksLikeSha(git_ref) \/ git.checkout = "ok"
    /\ LET r == CreateWorkspace(FsNow, ref, git_ref, git)
       IN  /\ dirs' = r.fs.d
           /\ files' = r.fs.f
           /\ last' = [Step("create", ref, NoKey, r.exc, NoRes, r.fs)
                          EXCEPT !.proc = IF ~ReachesGit(ref) THEN "none"
                                          ELSE IF git.clone # "ok" THEN git.clone
                                          ELSE IF LooksLikeSha(git_ref)
                                          THEN git.checkout ELSE "ok"]
           /\ track' = NoTrack
           /\ UNCHANGED <<bench, creating, report, now, stranded, runvars>>

DeleteCall(ref) ==
    LET r == DeleteWorkspace(FsNow, ref)
    IN  /\ dirs' = r.fs.d
        /\ files' = r.fs.f
        /\ last' = Step("delete", ref, NoKey, r.exc, NoRes, r.fs)
        /\ track' = IF r.exc = "none" /\ track.on /\ track.ref = ref
                    THEN [track EXCEPT !.gone = TRUE]
                    ELSE NoTrack
        /\ UNCHANGED <<bench, creating, report, now, stranded, runvars>>

Snapshot(ref, tar) ==
    /\ ReachesTar(ref) \/ tar = TarOk
    /\ LET r == SnapshotWorkspace(FsNow, ref, now, tar)
       IN  /\ dirs' = r.fs.d
           /\ files' = r.fs.f
           /\ last' = [Step("snapshot", ref, r.key, r.exc, NoRes, r.fs)
                          EXCEPT !.proc = IF ReachesTar(ref) THEN tar.run ELSE "none"]
           /\ track' = IF r.exc = "none"
                       THEN [on |-> TRUE, ref |-> ref, key |-> r.key,
                             tree |-> WorkspaceTree(r.fs, ref), dirty |-> FALSE,
                             gone |-> FALSE, at |-> now]
                       ELSE NoTrack
           /\ UNCHANGED <<bench, creating, report, now, stranded, runvars>>

Restore(ref, key, tar) ==
    /\ ReachesUntar(ref, key) \/ tar = TarOk
    /\ LET r == RestoreWorkspace(FsNow, ref, key, tar)
       IN  /\ dirs' = r.fs.d
           /\ files' = r.fs.f
           /\ last' = [Step("restore", ref, key, r.exc, NoRes, r.fs)
                          EXCEPT !.proc = IF ReachesUntar(ref, key) THEN tar.run
                                          ELSE "none"]
           /\ track' = IF r.exc = "none" /\ track.on /\ track.ref = ref /\ track.key = key
                       THEN track ELSE NoTrack
           /\ UNCHANGED <<bench, creating, report, now, stranded, runvars>>

RunCodeCall(ref, code, cut, intime) ==
    /\ ScratchFree(FsNow)
    /\ cut \in 0..Len(Statements(code))
    /\ intime = (code.end # "hang")
    /\ intime => cut = 0
    /\ ValidateImports(code) # "none" => (intime /\ cut = 0)
    /\ \E alias \in BOOLEAN :
       LET r == HandleRunCode(FsNow, ref, code, cut, intime, alias)
           ws == Resolve(JoinPath(WORKSPACE_BASE, ref))
       IN  /\ r.rest # <<>> => Len(stranded) < MaxStranded
           /\ dirs' = r.fs.d
           /\ files' = r.fs.f
           /\ stranded' = IF r.rest # <<>>
                          THEN Append(stranded, [ws |-> ws, ops |-> r.rest])
                          ELSE stranded
           /\ last' = [Step("run_code", ref, NoKey, r.exc, r.res, r.fs)
                          EXCEPT !.code = code, !.started = r.started]
           /\ track' = IF track.on /\ SafeWorkspacePath(track.ref).path = ws
                       THEN Tracked(r.fs) ELSE NoTrack
           /\ UNCHANGED <<bench, creating, report, now, runvars>>

\* An abandoned worker runs its next operation.
WorkerStep(i) ==
    LET w == stranded[i]
        r == ExecOp(FsNow, w.ws, Head(w.ops))
        others == [j \in 1..(Len(stranded) - 1) |->
                     IF j < i THEN stranded[j] ELSE stranded[j + 1]]
    IN  /\ ScratchFree(FsNow)
        /\ dirs' = r.fs.d
        /\ files' = r.fs.f
        /\ stranded' = IF r.exc # "none" \/ Len(w.ops) = 1
                       THEN others
                       ELSE [stranded EXCEPT ![i].ops = Tail(w.ops)]
        /\ last' = [Step("worker", NoRef, NoKey, r.exc, NoRes, r.fs)
                       EXCEPT !.started = r.started]
        /\ track' = Tracked(r.fs)
        /\ UNCHANGED <<bench, creating, report, now, runvars>>

Tick ==
    /\ now < MaxTime
    /\ now' = now + 1
    /\ last' = Step("tick", NoRef, NoKey, "none", NoRes, FsNow)
    /\ UNCHANGED <<bench, creating, report, dirs, files, stranded, track, runvars>>

CallRefs == {RefA, RefDot, RefSibling, RefUp, RefAbs}
RunRefs == {RefA, RefUp}

Next ==
    \/ \E ref \in CallRefs, g \in GitRefs, git \in GitOutcomes : Create(ref, g, git)
    \/ \E ref \in CallRefs : DeleteCall(ref)
    \/ \E ref \in RunRefs, code \in FsFragments, cut \in 0..1, intime \in BOOLEAN :
          RunCodeCall(ref, code, cut, intime)
    \/ \E i \in 1..Len(stranded) : WorkerStep(i)

Spec == Init /\ [][Next]_vars

SnapRefs == {RefA, RefUp}
RestoreRefs == {RefA, RefB, RefUp}

NextSnap ==
    \/ Create(RefA, MainRef, GitOk)
    \/ DeleteCall(RefA)
    \/ \E code \in SnapFragments : RunCodeCall(RefA, code, 0, TRUE)
    \/ \E ref \in SnapRefs, tar \in TarOutcomes : Snapshot(ref, tar)
    \/ \E ref \in RestoreRefs, key \in RestoreKeys, tar \in TarOutcomes :
          Restore(ref, key, tar)
    \/ Tick

SpecSnap == Init /\ [][NextSnap]_vars

(***************************************************************************)
(* SpecKey: restore with a snapshot_key of the caller's choosing, among    *)
(* them one that leads out of the snapshots directory.                     *)
(***************************************************************************)
KeyFragments ==
    {Fragment(TRUE, <<>>, <<Write(README \o <<".tar.gz">>, "v2")>>, "done"),
     Fragment(TRUE, <<>>, <<Delete(README \o <<".tar.gz">>)>>, "done")}

NextKey ==
    \/ Create(RefA, MainRef, GitOk)
    \/ DeleteCall(RefA)
    \/ \E code \in KeyFragments : RunCodeCall(RefA, code, 0, TRUE)
    \/ Snapshot(RefA, TarOk)
    \/ \E ref \in {RefA, RefB}, key \in {KeyUp, SnapshotKey(RefA, 0)}, tar \in TarOutcomes :
          Restore(ref, key, tar)

SpecKey == Init /\ [][NextKey]_vars

(***************************************************************************)
(* SpecEval: benchmark/evaluate.py over a results.json that run.py wrote.  *)
(* An entry is a job state with the resultJson of its first TESTER step;   *)
(* TIMEOUT and SUBMIT_ERROR entries carry no steps.  A resultJson is given *)
(* by how it parses, its "passed" and "tests_passed" fields and whether    *)
(* its text holds BUILD SUCCESS or BUILD FAILURE.                          *)
(***************************************************************************)
MaxResults == 2     \* entries of results.json

Absent == "absent"
ResultJson(parse, passed, tests_passed, text) ==
    [parse |-> parse, passed |-> passed, tests_passed |-> tests_passed, text |-> text]
NoTester == ResultJson("none", Absent, Absent, "")
TesterResults ==
    {NoTester,
     ResultJson("bad", Absent, Absent, ""),
     ResultJson("json", "true", Absent, ""),
     ResultJson("json", "false", Absent, "BUILD SUCCESS"),
     ResultJson("wrapped", Absent, "true", ""),
     ResultJson("json", "null", "false", ""),
     ResultJson("json", Absent, Absent, "BUILD SUCCESS"),
     ResultJson("json", Absent, Absent, "BUILD FAILURE"),
     ResultJson("json", Absent, Absent, "")}

JobResult(state, tester) == [state |-> state, tester |-> tester]
JobResults ==
    {JobResult(st, t) : st \in {"DONE", "FAILED"}, t \in TesterResults}
      \cup {JobResult("TIMEOUT", NoTester), JobResult("SUBMIT_ERROR", NoTester)}

\* data.get("passed", data.get("tests_passed")): a key that is present wins,
\* also when its value is null
PassedVal(data) == IF data.passed # Absent THEN data.passed ELSE data.tests_passed

\* parse_tester_result: the `passed` it returns
ParseTesterResult(result_json) ==
    IF result_json.parse \in {"none", "bad"} THEN FALSE
    ELSE IF PassedVal(result_json) \notin {Absent, "null"}
    THEN PassedVal(result_json) = "true"
    ELSE result_json.text = "BUILD SUCCESS"

\* `if test_passed: pass_count += 1`: the job state is not looked at
CountsRow(state, test_passed) == test_passed

InitEval ==
    /\ dirs = {<<>>, <<TMP>>} /\ files = <<>> /\ now = 0 /\ stranded = <<>>
    /\ last = Step("init", NoRef, NoKey, "none", NoRes, [d |-> dirs, f |-> files])
    /\ track = NoTrack
    /\ InitRunVars
    /\ creating = [c \in Creators |-> NoCreate]
    /\ bench = NoBench
    /\ \E n \in 0..MaxResults : \E results \in [1..n -> JobResults] :
         report = [NoReport EXCEPT !.pc = "rows", !.results = results]

EvalIdle == UNCHANGED <<bench, creating, dirs, files, now, stranded, last, track, runvars>>

\* one turn of `for result in job_results`
EvalRow ==
    LET result == report.results[Len(report.rows) + 1]
        test_passed == ParseTesterResult(result.tester)
        test_pass_str == IF result.state # "DONE" THEN "-"
                         ELSE IF test_passed THEN "PASS" ELSE "FAIL"
    IN  /\ report.pc = "rows" /\ Len(report.rows) < Len(report.results)
        /\ report' = [report EXCEPT
                        !.total = @ + 1,
                        !.pass_count = IF CountsRow(result.state, test_passed)
                                       THEN @ + 1 ELSE @,
                        !.rows = Append(@, [job_state |-> result.state,
                                            test_passed |-> test_passed,
                                            shown |-> test_pass_str])]
        /\ EvalIdle

\* the summary and eval_report.json
EvalSummary ==
    /\ report.pc = "rows" /\ Len(report.rows) = Len(report.results)
    /\ report' = [report EXCEPT !.pc = "saved"]
    /\ EvalIdle

NextEval == EvalRow \/ EvalSummary

SpecEval == InitEval /\ [][NextEval]_vars

(***************************************************************************)
(* SpecCreate: create_workspace served by two threads at once (the routes  *)
(* are plain `def`, which FastAPI runs on a thread pool).  A call is at    *)
(* its existence check, at git clone, at git checkout, in its except       *)
(* clause, or has returned.                                                *)
(***************************************************************************)
CreateRefs == {RefA, RefB}
CreateGitRefs == {[len |-> ShaLen, hex |-> TRUE], MainRef}

\* git clone refuses a destination that exists and is not empty
Occupied(fs, workspace_dir) ==
    \E x \in fs.d \cup DOMAIN fs.f : Under(workspace_dir, x) /\ x # workspace_dir

CreateIdle == UNCHANGED <<bench, report, now, stranded, last, track, runvars>>

\* _safe_workspace_path, the existence check, WORKSPACE_BASE.mkdir
CreateCheck(c, workspace_ref, git_ref) ==
    LET sp == SafeWorkspacePath(workspace_ref)
        fs1 == MkdirP(FsNow, WORKSPACE_BASE)
        returned(exc) == [creating[c] EXCEPT !.pc = "returned", !.ref = workspace_ref,
                                             !.git_ref = git_ref, !.exc = exc]
    IN  /\ creating[c].pc = "idle"
        /\ IF ~sp.ok
           THEN creating' = [creating EXCEPT ![c] = returned("ValueError")]
                /\ UNCHANGED <<dirs, files>>
           ELSE IF Exists(FsNow, sp.path)
           THEN creating' = [creating EXCEPT ![c] = returned("FileExistsError")]
                /\ UNCHANGED <<dirs, files>>
           ELSE /\ creating' =
                     [creating EXCEPT ![c] =
                        [pc |-> "clone", ref |-> workspace_ref, git_ref |-> git_ref,
                         exc |-> "none",
                         raced |-> \E d \in Creators \ {c} :
                                      /\ creating[d].pc = "clone"
                                      /\ creating[d].ref = workspace_ref]]
                /\ dirs' = fs1.d
                /\ files' = fs1.f
        /\ CreateIdle

\* _run(["git", "clone", ...])
CreateClone(c, git) ==
    LET workspace_dir == SafeWorkspacePath(creating[c].ref).path
        refused == Occupied(FsNow, workspace_dir)
        fs == IF refused THEN FsNow
              ELSE IF git.clone = "ok" THEN GitClone(FsNow, workspace_dir)
              ELSE GitCloneFailed(FsNow, workspace_dir, git)
    IN  /\ creating[c].pc = "clone"
        /\ refused => git = Git("fail", "ok", FALSE)
        /\ dirs' = fs.d
        /\ files' = fs.f
        /\ creating' =
             [creating EXCEPT ![c] =
                IF refused \/ git.clone # "ok"
                THEN [@ EXCEPT !.pc = "except", !.exc = RunExc(git.clone)]
                ELSE IF LooksLikeSha(@.git_ref) THEN [@ EXCEPT !.pc = "checkout"]
                ELSE [@ EXCEPT !.pc = "returned"]]
        /\ CreateIdle

\* _run(["git", "checkout", git_ref], cwd=workspace_dir)
CreateCheckout(c, outcome) ==
    /\ creating[c].pc = "checkout"
    /\ creating' =
         [creating EXCEPT ![c] =
            IF ~IsDir(FsNow, SafeWorkspacePath(@.ref).path)
            THEN [@ EXCEPT !.pc = "except", !.exc = "FileNotFoundError"]
            ELSE IF outcome = "ok" THEN [@ EXCEPT !.pc = "returned"]
            ELSE [@ EXCEPT !.pc = "except", !.exc = RunExc(outcome)]]
    /\ UNCHANGED <<dirs, files>>
    /\ CreateIdle

\* except Exception: shutil.rmtree(workspace_dir, ignore_errors=True); raise
CreateExcept(c) ==
    LET fs == CleanupFailedCreate(FsNow, SafeWorkspacePath(creating[c].ref).path)
    IN  /\ creating[c].pc = "except"
        /\ dirs' = fs.d
        /\ files' = fs.f
        /\ creating' = [creating EXCEPT ![c].pc = "returned"]
        /\ CreateIdle

NextCreate ==
    \/ \E c \in Creators, ref \in CreateRefs, g \in CreateGitRefs : CreateCheck(c, ref, g)
    \/ \E c \in Creators, git \in GitOutcomes : CreateClone(c, git)
    \/ \E c \in Creators, outcome \in {"ok", "fail", "timeout"} : CreateCheckout(c, outcome)
    \/ \E c \in Creators : CreateExcept(c)

SpecCreate == Init /\ [][NextCreate]_vars

(***************************************************************************)
(* SpecTools: code actions that call the tool primitives with paths of     *)
(* their own choosing, on the workspaces "a" and "ab".                     *)
(***************************************************************************)
ToolRefs == {RefA, RefAB}

ToolFragments ==
    {Fragment(TRUE, <<>>, <<Write(README, "v2")>>, "done"),
     Fragment(TRUE, <<>>, <<WriteTo(<<DOTDOT, <<"a", "b">>, README>>, "v3")>>, "done"),
     Fragment(TRUE, <<>>, <<WriteTo(<<DOTDOT, <<"a">>, README>>, "v3")>>, "done"),
     Fragment(TRUE, <<>>, <<WriteTo(<<DOTDOT, DOTDOT, <<"o">> >>, "v3")>>, "done"),
     Fragment(TRUE, <<>>, <<RunCmd(<<>>, "ok")>>, "done"),
     Fragment(TRUE, <<>>, <<RunCmd(<<"git", "status">>, "ok")>>, "done"),
     Fragment(TRUE, <<>>, <<RunCmd(<<"mvn", "test">>, "fail")>>, "done"),
     Fragment(TRUE, <<>>, <<RunCmd(<<"java", "Main">>, "timeout")>>, "done"),
     Fragment(TRUE, <<>>, <<RunCmd(<<"./gradlew">>, "nobin")>>, "done"),
     Fragment(TRUE, <<>>, <<RunCmd(<<"gradlew">>, "ok")>>, "done"),
     Fragment(TRUE, <<>>, <<RunCmd(<<"bash", "-c", "git">>, "ok")>>, "done"),
     Fragment(TRUE, <<>>, <<RunCmd(<<"rm", "-rf">>, "ok"),
                            RunCmd(<<"rg", "x">>, "ok")>>, "done"),
     Fragment(TRUE, <<>>, <<Patch(README, "ok")>>, "done"),
     Fragment(TRUE, <<>>, <<Patch(README, "fail")>>, "done"),
     Fragment(TRUE, <<>>, <<Patch(README, "timeout")>>, "done"),
     Fragment(TRUE, <<>>, <<Patch(README, "writeerr")>>, "done"),
     Fragment(TRUE, <<>>, <<>>, "raise"),
     Fragment(TRUE, <<>>, <<>>, "raise_timeout")}

NameFragments ==
    {Fragment(TRUE, <<>>, <<PrintName(name)>>, "done") :
       name \in {"exec", "__import__", "open", "print", "run_command"}}

GitFragments ==
    {Fragment(TRUE, <<>>, <<PrintGit(tool, outcome)>>, "done") :
       tool \in {"git_status", "git_diff"},
       outcome \in {"ok", "fail", "timeout", "nobin"}}

\* fragments of allowlisted imports: "import os", "from pathlib import Path",
\* "import json, re" followed by a print
ImportFragments ==
    {Fragment(TRUE, <<Import(<< <<"os">> >>)>>, <<>>, "done"),
     Fragment(TRUE, <<FromImport(<<"pathlib">>, 0)>>, <<>>, "done"),
     Fragment(TRUE, <<Import(<< <<"json">>, <<"re">> >>)>>, <<Echo("x")>>, "done")}

NextTools ==
    \/ \E ref \in ToolRefs : Create(ref, MainRef, GitOk)
    \/ \E ref \in ToolRefs : DeleteCall(ref)
    \/ \E ref \in ToolRefs, code \in ToolFragments : RunCodeCall(ref, code, 0, TRUE)
    \/ \E code \in NameFragments : RunCodeCall(RefA, code, 0, TRUE)
    \/ \E code \in GitFragments : RunCodeCall(RefA, code, 0, TRUE)
    \/ \E code \in ImportFragments : RunCodeCall(RefA, code, 0, TRUE)

SpecTools == Init /\ [][NextTools]_vars

(***************************************************************************)
(* SpecValidate: validate_imports on fragments of up to two import         *)
(* statements, in the order ast.walk meets them.                           *)
(***************************************************************************)
Modules == {<<"os">>, <<"xml", "etree", "ElementTree">>, <<"socket">>,
            <<"urllib", "request">>}

ImportNodes ==
    {Import(<<m>>) : m \in Modules}
      \cup {Import(<< <<"os">>, <<"socket">> >>), Import(<< <<"socket">>, <<"os">> >>)}
      \cup {FromImport(m, 0) : m \in Modules}
      \cup {FromImport(<<"socket">>, 1), FromImport(NoModule, 1)}

ValidateFragments ==
    {Fragment(FALSE, <<>>, <<>>, "done"), Fragment(TRUE, <<>>, <<>>, "done")}
      \cup {Fragment(TRUE, <<n>>, <<>>, "done") : n \in ImportNodes}
      \cup {Fragment(TRUE, <<n, m>>, <<>>, "done") : n \in ImportNodes, m \in ImportNodes}

Validate(code) ==
    /\ last' = [Step("validate", NoRef, NoKey, ValidateImports(code), NoRes, FsNow)
                   EXCEPT !.code = code]
    /\ UNCHANGED <<bench, creating, report, dirs, files, now, stranded, track, runvars>>

NextValidate == \E code \in ValidateFragments : Validate(code)

SpecValidate == Init /\ [][NextValidate]_vars

(***************************************************************************)
(* SpecObserve: to_observation on the Execution Results run_code can       *)
(* return, with streams that are empty, all whitespace, or text with       *)
(* whitespace around it.                                                   *)
(***************************************************************************)
Streams ==
    {<<>>, <<NL>>, <<SP, NL>>, <<"x">>, <<"x", NL>>, <<SP, "x", NL, "y", NL, NL>>}

ErrorTypes == {None, "SYNTAX_ERROR", "POLICY_VIOLATION", "TIMEOUT"}

Observe(res) ==
    /\ last' = [Step("observe", NoRef, NoKey, "none", NoRes, FsNow)
                   EXCEPT !.obs = [of |-> res, text |-> ToObservation(res)]]
    /\ UNCHANGED <<bench, creating, report, dirs, files, now, stranded, track, runvars>>

NextObserve ==
    \E exit_code \in {0, 1}, stdout \in Streams, stderr \in Streams,
       error_type \in ErrorTypes :
        Observe(Result(exit_code, stdout, stderr, error_type))

SpecObserve == Init /\ [][NextObserve]_vars

(***************************************************************************)
(* SpecBench: benchmark/run.py.  main() walks the selected tasks; each     *)
(* HTTP call to the orchestrator either answers or raises (connection      *)
(* error, timeout of the request, raise_for_status).                       *)
(***************************************************************************)
ALL_TASKS == <<"LANG-1", "TEXT-1", "MATH-1">>
TaskArgs == {<<>>, <<"TEXT-1">>, <<"MATH-1", "LANG-1">>}

Range(seq) == {seq[k] : k \in 1..Len(seq)}
InArgs(args) == [id \in Range(ALL_TASKS) |-> id \in Range(args)]
\* tasks = [t for t in all_tasks if t["id"] in args.tasks], or all of them
SelectTasks(args) ==
    IF args = <<>> THEN ALL_TASKS
    ELSE LET in == InArgs(args)
             Chosen(id) == in[id]
         IN  SelectSeq(ALL_TASKS, Chosen)

Outcome(task_id, state, steps) == [task_id |-> task_id, state |-> state, steps |-> steps]

\* results.append(...) and on to the next task of the for loop
NextTask(b, entry) ==
    [b EXCEPT !.pc = "submit", !.i = b.i + 1, !.job = "", !.polls = 0,
              !.results = Append(b.results, entry)]

InitBench ==
    /\ dirs = {<<>>, <<TMP>>} /\ files = <<>> /\ now = 0 /\ stranded = <<>>
    /\ last = Step("init", NoRef, NoKey, "none", NoRes, [d |-> dirs, f |-> files])
    /\ track = NoTrack
    /\ InitRunVars
    /\ creating = [c \in Creators |-> NoCreate]
    /\ report = NoReport
    /\ \E args \in TaskArgs :
         bench = [NoBench EXCEPT !.pc = "submit", !.tasks = SelectTasks(args), !.i = 1]

BenchIdle == UNCHANGED <<creating, report, dirs, files, now, stranded, last, track, runvars>>

SubmitJob(raised) ==
    /\ bench.pc = "submit" /\ bench.i <= Len(bench.tasks)
    /\ bench' = IF raised
                THEN NextTask(bench, Outcome(bench.tasks[bench.i], "SUBMIT_ERROR", <<>>))
                ELSE [bench EXCEPT !.pc = "poll"]
    /\ BenchIdle

\* one turn of poll_until_done's loop; get_job is called outside any try
PollJob(raised, state) ==
    /\ bench.pc = "poll" /\ bench.polls < MaxPolls
    /\ bench' = IF raised THEN [bench EXCEPT !.pc = "crashed"]
                ELSE IF state \in {"DONE", "FAILED"}
                     THEN [bench EXCEPT !.pc = "steps", !.job = state]
                     ELSE [bench EXCEPT !.polls = bench.polls + 1]
    /\ BenchIdle

\* the deadline passed: poll_until_done returns None
PollTimeout ==
    /\ bench.pc = "poll" /\ bench.polls = MaxPolls
    /\ bench' = NextTask(bench, Outcome(bench.tasks[bench.i], "TIMEOUT", <<>>))
    /\ BenchIdle

GetSteps(raised) ==
    /\ bench.pc = "steps"
    /\ bench' = NextTask(bench, Outcome(bench.tasks[bench.i], bench.job,
                                        IF raised THEN <<>> ELSE <<"step">>))
    /\ BenchIdle

\* RESULTS_FILE.write_text(...) after the loop
SaveResults ==
    /\ bench.pc = "submit" /\ bench.i > Len(bench.tasks)
    /\ bench' = [bench EXCEPT !.pc = "exit", !.saved = TRUE, !.file = bench.results]
    /\ BenchIdle

NextBench ==
    \/ \E raised \in BOOLEAN : SubmitJob(raised)
    \/ \E raised \in BOOLEAN, state \in {"RUNNING", "DONE", "FAILED"} : PollJob(raised, state)
    \/ PollTimeout
    \/ \E raised \in BOOLEAN : GetSteps(raised)
    \/ SaveResults

SpecBench == InitBench /\ [][NextBench]_vars

(***************************************************************************)
(* SpecRun: run_code with its worker thread.  Slot i is one call of the    *)
(* run_code route, on workspace "a" (slot 1) or "b" (slot 2); the calls    *)
(* run concurrently in the request thread pool.                            *)
(***************************************************************************)
WsOf(i) == IF i = 1 THEN RefA ELSE RefB
WsDir(i) == Resolve(JoinPath(WORKSPACE_BASE, WsOf(i)))

RunFragments ==
    {Fragment(FALSE, <<>>, <<>>, "done"),
     Fragment(TRUE, <<Import(<< <<"os">>, <<"socket">> >>)>>, <<Echo("x")>>, "done"),
     Fragment(TRUE, <<FromImport(<<"socket">>, 0)>>, <<Write(README, "v2")>>, "done"),
     Fragment(TRUE, <<>>, <<Echo("x")>>, "done"),
     Fragment(TRUE, <<>>, <<Write(README, "v2")>>, "hang"),
     Fragment(TRUE, <<>>, <<>>, "raise"),
     Fragment(TRUE, <<>>, <<>>, "raise_timeout"),
     Fragment(TRUE, <<>>, <<>>, "exit")}

\* pool.shutdown(wait=True), what `with ThreadPoolExecutor()` would do
ShutdownWaits == TRUE

\* pool.shutdown(wait=False): the supervisor does not wait for the worker
ShutdownWait == FALSE

\* the calls that have already returned TIMEOUT when a call begins
TimedOutBefore ==
    {d \in Slots : call[d].pc = "returned" /\ call[d].res.error_type = "TIMEOUT"}

\* handle_run_code up to pool.submit: mkdir, validation, buffers, the worker
RunCodeBegin(i, code, timeout_sec) ==
    LET v == ValidateImports(code)
        fs == MkdirP(FsNow, WsDir(i))
        refused(stderr, error_type) ==
            [call EXCEPT ![i] = [pc |-> "returned", code |-> code,
                                 timeout_sec |-> timeout_sec, elapsed |-> 0,
                                 res |-> Result(1, <<>>, stderr, error_type),
                                 prior |-> TimedOutBefore]]
    IN  /\ call[i].pc = "idle"
        /\ dirs' = fs.d
        /\ files' = fs.f
        /\ IF v = "SyntaxError"
           THEN call' = refused("SyntaxError", "SYNTAX_ERROR") /\ UNCHANGED worker
           ELSE IF v = "SecurityError"
           THEN call' = refused("SecurityError", "POLICY_VIOLATION") /\ UNCHANGED worker
           ELSE /\ call' = [call EXCEPT ![i] = [pc |-> "waiting", code |-> code,
                                                 timeout_sec |-> timeout_sec,
                                                 elapsed |-> 0, res |-> NoRes,
                                                 prior |-> TimedOutBefore]]
                /\ worker' = [worker EXCEPT ![i] = [pc |-> "queued", ops |-> Statements(code),
                                                     end |-> code.end,
                                                     exc |-> EndExc(code.end),
                                                     saved |-> RealStdout]]
        /\ UNCHANGED <<bench, creating, report, now, stranded, last, track, buf, sysout>>

\* _exec enters `with contextlib.redirect_stdout(stdout_buf)`: sys.stdout is
\* saved and replaced, for the whole process.
WorkerEnter(i) ==
    /\ worker[i].pc = "queued"
    /\ worker' = [worker EXCEPT ![i].pc = "inside", ![i].saved = sysout]
    /\ sysout' = i
    /\ UNCHANGED <<bench, creating, report, dirs, files, now, stranded, last, track, call, buf>>

\* exec runs the next operation of the fragment; print writes to sys.stdout.
WorkerOp(i) ==
    /\ worker[i].pc = "inside"
    /\ worker[i].ops # <<>>
    /\ ScratchFree(FsNow)
    /\ LET op == Head(worker[i].ops)
           r == ExecOp(FsNow, WsDir(i), op)
       IN  /\ dirs' = r.fs.d
           /\ files' = r.fs.f
           /\ buf' = IF r.out # <<>> /\ sysout # RealStdout
                      THEN [buf EXCEPT ![sysout] = @ \o Lines(i, r.out)]
                      ELSE buf
           /\ worker' = IF r.exc # "none"
                         THEN [worker EXCEPT ![i].ops = <<>>, ![i].end = "raise",
                                             ![i].exc = r.exc]
                         ELSE [worker EXCEPT ![i].ops = Tail(@)]
    /\ UNCHANGED <<bench, creating, report, now, stranded, last, track, call, sysout>>

\* The fragment ends: `with` restores the sys.stdout it saved, and the future
\* holds the outcome.  A fragment that hangs never gets here.
WorkerExit(i) ==
    /\ worker[i].pc = "inside"
    /\ worker[i].ops = <<>>
    /\ worker[i].end # "hang"
    /\ worker' = [worker EXCEPT ![i].pc = "finished"]
    /\ sysout' = worker[i].saved
    /\ UNCHANGED <<bench, creating, report, dirs, files, now, stranded, last, track, call, buf>>

\* a supervisor that takes every finished fragment for a success
ExceptionSwallowed(exc, stdout, alias) == Result(0, stdout, "", None)

\* The Execution Result after future.result() returned or raised exc, an
\* Exception: the except clauses of run_code and its final return.
FutureOutcome(exc, stdout, alias) ==
    CASE exc = "none" -> Result(0, stdout, "", None)
      [] exc = "TimeoutError" /\ alias -> Result(1, stdout, "timed out", "TIMEOUT")
      [] OTHER -> Result(1, stdout, Traceback(exc), None)

\* future.result(timeout=timeout_sec) with the worker finished: it returns,
\* or re-raises what the fragment raised.  `alias`: FuturesTimeout is the
\* builtin TimeoutError (see RunCodeStep).
SupervisorResult(i) ==
    /\ call[i].pc = "waiting"
    /\ worker[i].pc = "finished"
    /\ \E alias \in BOOLEAN :
         call' = [call EXCEPT ![i] =
                  IF worker[i].exc = "SystemExit"
                  THEN [@ EXCEPT !.pc = "thrown"]
                  ELSE [@ EXCEPT !.pc = "returned",
                                 !.res = FutureOutcome(worker[i].exc, buf[i], alias)]]
    /\ UNCHANGED <<bench, creating, report, dirs, files, now, stranded, last, track, worker, buf, sysout>>

\* except FuturesTimeout: the wait ran out before the worker finished
SupervisorTimeout(i) ==
    /\ call[i].pc = "waiting"
    /\ call[i].elapsed >= call[i].timeout_sec
    /\ worker[i].pc # "finished"
    /\ ~ShutdownWait
    /\ call' = [call EXCEPT ![i].pc = "returned",
                            ![i].res = Result(1, buf[i], "timed out", "TIMEOUT")]
    /\ UNCHANGED <<bench, creating, report, dirs, files, now, stranded, last, track, worker, buf, sysout>>

\* One second passes for every call that is waiting.
TickRun ==
    /\ \E i \in Slots : call[i].pc = "waiting" /\ call[i].elapsed < call[i].timeout_sec
    /\ call' = [i \in Slots |->
                  IF call[i].pc = "waiting" /\ call[i].elapsed < call[i].timeout_sec
                  THEN [call[i] EXCEPT !.elapsed = @ + 1]
                  ELSE call[i]]
    /\ UNCHANGED <<bench, creating, report, dirs, files, now, stranded, last, track, worker, buf, sysout>>

NextRun ==
    \/ \E i \in Slots, code \in RunFragments, t \in 1..MaxTimeout : RunCodeBegin(i, code, t)
    \/ \E i \in Slots : WorkerEnter(i)
    \/ \E i \in Slots : WorkerOp(i)
    \/ \E i \in Slots : WorkerExit(i)
    \/ \E i \in Slots : SupervisorResult(i)
    \/ \E i \in Slots : SupervisorTimeout(i)
    \/ TickRun

SpecRun == Init /\ [][NextRun]_vars

\* The clock advances and a supervisor whose wait has ended is scheduled.
FairRun ==
    /\ SpecRun
    /\ WF_vars(TickRun)
    /\ \A i \in Slots : WF_vars(SupervisorTimeout(i)) /\ WF_vars(SupervisorResult(i))

(***************************************************************************)
(* Properties.                                                             *)
(***************************************************************************)
ManagerOps == {"create", "delete", "snapshot", "restore"}
StepFailures == {"RuntimeError", "TimeoutExpired", "FileNotFoundError"}
Dir(ref) == SafeWorkspacePath(ref).path
RunDir(ref) == Resolve(JoinPath(WORKSPACE_BASE, ref))
\* str(path) begins with str(WORKSPACE_BASE)
HasBasePrefix(p) == StartsWith(Str(p), Str(Resolve(WORKSPACE_BASE)))
\* path is a proper descendant of WORKSPACE_BASE
StrictlyUnder(p) == Under(Resolve(WORKSPACE_BASE), p) /\ p # Resolve(WORKSPACE_BASE)

\* C1: when restore(W, k) succeeds after snapshot(W) returned k and only code
\* actions on W ran in between, the subtree of W equals the tree the snapshot
\* captured: no file added since remains, every file changed or removed
\* since is back with its content.
C1_RestoreGivesSnapshotTree ==
    (last.op = "restore" /\ last.exc = "none" /\ track.on /\ ~track.gone)
        => WorkspaceTree(FsNow, last.ref) = track.tree

C1_Witness ==
    /\ last.op = "restore" /\ last.exc = "none"
    /\ track.on /\ track.dirty /\ ~track.gone
    /\ last.ref = track.ref /\ last.key = track.key

\* C2: create, delete, snapshot, restore and the run_code route, given a ref
\* whose canonical path does not have WORKSPACE_BASE as a prefix, fail and
\* have created, removed and written nothing.
C2_OutsideRefFailsUntouched ==
    /\ (last.op \in ManagerOps /\ ~HasBasePrefix(Dir(last.ref)))
          => (last.exc # "none" /\ ~last.touched)
    /\ (last.op = "run_code" /\ ~HasBasePrefix(RunDir(last.ref)))
          => (last.exc # "none" /\ ~last.touched)

\* C3: create, delete, snapshot and restore act only on proper descendants
\* of WORKSPACE_BASE: a ref that resolves to the base itself or outside it
\* (a sibling sharing the base's name as a prefix included) ends in the
\* traversal error with the file system untouched.
C3_OnlyStrictDescendants ==
    (last.op \in ManagerOps /\ ~StrictlyUnder(Dir(last.ref)))
        => (last.exc = "ValueError" /\ ~last.touched)

\* C4: run_code never throws: every call that has ended has returned an
\* Execution Result, however the fragment ended.
C4_RunCodeNeverThrows ==
    \A i \in Slots : call[i].pc # "thrown"

\* C5: a call whose fragment never terminates returns once timeout_sec has
\* elapsed, with exit_code 1, error_type TIMEOUT and the timed-out note,
\* while its worker is still running; it does not return TIMEOUT earlier.
TimedOut(i) ==
    /\ call[i].pc = "returned"
    /\ call[i].res.exit_code = 1
    /\ call[i].res.error_type = "TIMEOUT"
    /\ call[i].res.stderr = "timed out"
C5_HangReturnsTimeout ==
    /\ \A i \in Slots :
          (call[i].pc = "waiting" /\ call[i].code.end = "hang")
              ~> (TimedOut(i) /\ worker[i].pc # "finished")
    /\ [](\A i \in Slots :
            (/\ call[i].code.end = "hang"
             /\ call[i].pc = "returned"
             /\ call[i].res.error_type = "TIMEOUT")
                => call[i].elapsed = call[i].timeout_sec)

C5_Witness ==
    \E i \in Slots :
        /\ call[i].code.end = "hang"
        /\ TimedOut(i)
        /\ call[i].elapsed = call[i].timeout_sec
        /\ worker[i].pc = "inside" /\ worker[i].ops = <<>>

\* C6: the stdout returned for a code action that ran to its end holds
\* exactly the lines its own fragment printed, whatever other call ran
\* at the same time.
OwnOutput(i) ==
    Lines(i, ExecOps(EmptyFs, WsDir(i), Statements(call[i].code)).out)
C6_StdoutIsOwn ==
    \A i \in Slots :
        (call[i].pc = "returned" /\ call[i].res.exit_code = 0)
            => call[i].res.stdout = OwnOutput(i)

\* C7: a call whose fragment imports a module with a root package outside
\* the allowlist returns exit_code 1, POLICY_VIOLATION and empty stdout;
\* no worker was started for it and its workspace holds no file.
ImportsOutsideAllowlist(code) ==
    /\ code.parse
    /\ \E n \in 1..Len(code.imports) : \E k \in 1..Len(code.imports[n].names) :
          LET m == code.imports[n].names[k]
          IN  m # NoModule /\ <<Head(m)>> \notin ALLOWED_MODULES
C8_CreateStep ==
    /\ (last'.op = "create" /\ SafeWorkspacePath(last'.ref).ok
          /\ Exists(FsNow, Dir(last'.ref)))
          => (last'.exc = "FileExistsError" /\ dirs' = dirs /\ files' = files)
    /\ (last.op = "delete" /\ last.exc = "none"
          /\ last'.op = "create" /\ last'.ref = last.ref)
          => last'.exc # "FileExistsError"
C8_CreateOncePerRef == [][C8_CreateStep]_vars

C8_Witness ==
    /\ last.op = "create" /\ last.exc = "FileExistsError"
    /\ Exists(FsNow, Append(Dir(last.ref), README))

\* C9: when the clone or the checkout of create(ref) fails or times out,
\* nothing exists at the ref's directory when the error is surfaced, and
\* no create(ref) issued then is refused as existing.
C9_FailedCreateLeavesNothing ==
    (last.op = "create" /\ last.exc \in StepFailures)
        => /\ ~Exists(FsNow, Dir(last.ref))
           /\ \A g \in GitRefs, git \in GitOutcomes :
                 CreateWorkspace(FsNow, last.ref, g, git).exc # "FileExistsError"

C9_Witness ==
    /\ last.op = "create" /\ last.exc = "TimeoutExpired"
    /\ ~Exists(FsNow, Dir(last.ref))

\* C10: a snapshot(ref) whose archiving process exits non-zero or times out
\* leaves no archive file for its key in the snapshots directory.
C10_FailedSnapshotLeavesNoArchive ==
    (last.op = "snapshot" /\ last.exc \in {"RuntimeError", "TimeoutExpired"})
        => ~Exists(FsNow, ArchivePath(last.key))

\* C11: a restore(ref, key) whose extraction fails part-way leaves no
\* directory for ref when the error is surfaced.
C11_FailedRestoreLeavesNoWorkspace ==
    (last.op = "restore" /\ last.exc \in {"RuntimeError", "TimeoutExpired"})
        => ~Exists(FsNow, Dir(last.ref))

\* C12: once snapshot(ref) has returned k and delete(ref) has succeeded,
\* restore(ref, k) is not refused (with a working tar it succeeds), and when
\* it has succeeded the workspace directory exists with the archived tree.
C12_SnapshotOutlivesWorkspace ==
    /\ (track.on /\ track.gone /\ last.op = "delete")
          => RestoreWorkspace(FsNow, track.ref, track.key, TarOk).exc = "none"
    /\ (track.on /\ track.gone /\ last.op = "restore" /\ last.exc = "none")
          => /\ IsDir(FsNow, Dir(last.ref))
             /\ WorkspaceTree(FsNow, last.ref) = track.tree

C12_Witness ==
    /\ track.on /\ track.gone /\ ~track.dirty
    /\ last.op = "restore" /\ last.exc = "none"
    /\ Exists(FsNow, Append(Dir(last.ref), README))

\* C13: a successful snapshot taken at least one second after a successful
\* snapshot of the same workspace returns a different key and leaves the
\* earlier archive as it was, so that both archives exist.
IsArchive(fs, key) ==
    ArchivePath(key) \in DOMAIN fs.f /\ fs.f[ArchivePath(key)].kind = "tar"
C13_SnapshotStep ==
    (/\ last'.op = "snapshot" /\ last'.exc = "none"
     /\ track.on /\ track.ref = last'.ref
     /\ now >= track.at + 1)
        => /\ last'.key # track.key
           /\ IsArchive(FsNow, track.key)
           /\ IsArchive([d |-> dirs', f |-> files'], last'.key)
           /\ files'[ArchivePath(track.key)] = files[ArchivePath(track.key)]
C13_LaterSnapshotHasNewKey == [][C13_SnapshotStep]_vars

C13_Witness ==
    /\ last.op = "snapshot" /\ last.exc = "none"
    /\ track.on /\ track.key = last.key /\ track.at = 1
    /\ IsArchive(FsNow, SnapshotKey(last.ref, 0))
    /\ IsArchive(FsNow, last.key)
    /\ files[ArchivePath(last.key)] # files[ArchivePath(SnapshotKey(last.ref, 0))]

\* C14: after every successful restore(ref, snapshot_key) the workspace
\* ref exists and its contents are exactly the tree held by the archive of
\* snapshot_key, with nothing left of what was there before.
ArchivedTree(key) ==
    [d |-> files[ArchivePath(key)].d, f |-> files[ArchivePath(key)].f]
C14_RestoreRecreatesRef ==
    (last.op = "restore" /\ last.exc = "none")
        => /\ IsDir(FsNow, Dir(last.ref))
           /\ WorkspaceTree(FsNow, last.ref) = ArchivedTree(last.key)

\* C15: a code action bound to workspace ws leaves every file outside the
\* directory subtree of ws as it was: none is created, changed or removed.
C15_RunCodeStep ==
    last'.op = "run_code"
        => \A p \in (DOMAIN files) \cup (DOMAIN files') :
              ~Under(RunDir(last'.ref), p)
                  => (p \in DOMAIN files /\ p \in DOMAIN files' /\ files'[p] = files[p])
C15_FileAccessConfined == [][C15_RunCodeStep]_vars

\* The command vector of the run_command call a fragment begins with.
NoCmd == <<"-">>
FirstCmd(code) ==
    IF code.ops # <<>> /\ Head(code.ops).k = "run" THEN Head(code.ops).cmd ELSE NoCmd

C16_RunStep == last.op = "run_code" /\ last.exc = "none"

\* C16: run_command starts a process only for a non-empty command vector
\* whose argv[0] is exactly one of mvn, ./gradlew, java, git, rg; an empty
\* vector ends in a ValueError and a disallowed argv[0] in a PermissionError,
\* both with no process started.
C16_RunCommandAllowlist ==
    C16_RunStep =>
      /\ \A k \in 1..Len(last.started) :
            /\ last.started[k].argv # <<>>
            /\ last.started[k].argv[1] \in {"mvn", "./gradlew", "java", "git", "rg"}
            /\ \E j \in 1..Len(last.code.ops) :
                  /\ last.code.ops[j].k = "run"
                  /\ last.code.ops[j].cmd = last.started[k].argv
      /\ FirstCmd(last.code) = <<>> =>
            /\ last.started = <<>>
            /\ last.res.stderr = "Traceback: ValueError"
      /\ (/\ FirstCmd(last.code) \notin {<<>>, NoCmd}
          /\ FirstCmd(last.code)[1] \notin {"mvn", "./gradlew", "java", "git", "rg"}) =>
            /\ last.started = <<>>
            /\ last.res.stderr = "Traceback: PermissionError"

\* a fragment was refused that names an allowed command, but not as argv[0]
C16_Witness ==
    /\ C16_RunStep
    /\ FirstCmd(last.code) = <<"bash", "-c", "git">>
    /\ last.started = <<>>
    /\ last.res.stderr = "Traceback: PermissionError"

\* C17: a fragment whose run_command is rejected for a disallowed argv[0]
\* returns exit_code 1 with error_type POLICY_VIOLATION.
C17_RejectedCommandIsPolicyViolation ==
    (/\ C16_RunStep
     /\ FirstCmd(last.code) \notin {<<>>, NoCmd}
     /\ FirstCmd(last.code)[1] \notin {"mvn", "./gradlew", "java", "git", "rg"}) =>
       /\ last.res.exit_code = 1
       /\ last.res.error_type = "POLICY_VIOLATION"

\* The fragment of call i raised before the wait of its supervisor ran out.
C18_RaisedInTime(i) ==
    /\ call[i].pc \in {"returned", "thrown"}
    /\ ValidateImports(call[i].code) = "none"
    /\ call[i].elapsed < call[i].timeout_sec
    /\ worker[i].pc = "finished"
    /\ worker[i].exc # "none"

\* C18: every exception a validated fragment raises before its timeout
\* elapses gives exit_code 1, the trace of that exception in stderr and no
\* error_type; and a result with nonzero exit and no error_type always
\* comes from an exception the fragment raised.
C18_ExceptionGivesTrace ==
    \A i \in Slots :
      /\ C18_RaisedInTime(i) =>
            /\ call[i].pc = "returned"
            /\ call[i].res.exit_code = 1
            /\ call[i].res.stderr = "Traceback: " \o worker[i].exc
            /\ call[i].res.error_type = "None"
      /\ (/\ call[i].pc = "returned"
          /\ call[i].res.exit_code # 0
          /\ call[i].res.error_type = "None") =>
            /\ worker[i].pc = "finished"
            /\ worker[i].exc # "none"

\* C19: a result with error_type TIMEOUT is only returned when timeout_sec
\* has elapsed and the worker is still running at that moment.
C19_TimeoutMeansStillRunning ==
    [][\A i \in Slots :
         (/\ call[i].pc = "waiting"
          /\ call'[i].pc = "returned"
          /\ call'[i].res.error_type = "TIMEOUT") =>
            /\ call'[i].elapsed >= call'[i].timeout_sec
            /\ worker[i].pc # "finished"]_vars

\* C20: whichever way apply_patch ends - success or failure of the patch
\* command, its timeout, or an error while the diff is written - the
\* scratch file it created does not exist afterwards.
C20_ScratchFileRemoved ==
    [][(/\ last'.op = "run_code"
        /\ last'.code.ops # <<>>
        /\ Head(last'.code.ops).k = "delete") =>
          \A p \in ScratchPaths : p \in DOMAIN files' => p \in DOMAIN files]_vars


ProcFailures == {"fail", "timeout", "nobin"}

\* C21: a failed create, snapshot, restore or delete is answered with a
\* {detail} body and the code of its kind: 400 for a traversal, 404 for a
\* missing workspace or snapshot, 409 for an existing workspace, 500 for a
\* git or tar process that failed (non-zero exit, timeout, missing binary);
\* and no code answers a failure of another kind.
C21_FailureHasCodeOfItsKind ==
    (last.op \in ManagerOps /\ last.exc # "none") =>
      /\ last.http.detail
      /\ last.proc \in ProcFailures => last.http.status_code = 500
      /\ last.exc = "ValueError" <=> last.http.status_code = 400
      /\ last.exc = "FileExistsError" <=> last.http.status_code = 409
      /\ (last.exc = "FileNotFoundError" /\ last.proc \notin ProcFailures)
           <=> last.http.status_code = 404


\* Every import and from-import statement of the fragment names a module
\* whose root segment is an allowlisted name.
EveryImportAllowed(code) ==
    \A n \in 1..Len(code.imports) : \A k \in 1..Len(code.imports[n].names) :
        LET m == code.imports[n].names[k]
        IN  m # NoModule /\ <<Head(m)>> \in ALLOWED_MODULES

\* C22: an unparseable fragment is rejected with a syntax error; a parseable
\* one is accepted exactly when every import and from-import statement in it
\* names a module with an allowlisted root segment, and is rejected with a
\* policy error otherwise.
C22_AcceptsIffAllImportsAllowed ==
    last.op = "validate" =>
      /\ ~last.code.parse => last.exc = "SyntaxError"
      /\ last.code.parse =>
           /\ last.exc = "none" <=> EveryImportAllowed(last.code)
           /\ last.exc # "none" => last.exc = "SecurityError"


\* The name a fragment begins by printing.
FirstName(code) ==
    IF code.ops # <<>> /\ Head(code.ops).k = "name" THEN Head(code.ops).v ELSE ""

\* C23: in the globals of every code action no blocked intrinsic is
\* reachable by name, the name `open` is bound to the workspace-scoped
\* replacement and to nothing else, and the tool primitives bind no blocked
\* name.
C23_BlockedNamesUnreachable ==
    C16_RunStep =>
      LET env == SandboxGlobals(RunDir(last.ref))
          blocked == {"__import__", "eval", "exec", "compile", "open", "input",
                      "memoryview", "breakpoint"}
      IN  /\ \A name \in blocked \ {"open"} : Lookup(env, name) = NoObject
          /\ Lookup(env, "open") = "safe_open"
          /\ \A name \in DOMAIN env.globals \cup DOMAIN env.builtins :
                Lookup(env, name) \notin {"builtins." \o b : b \in blocked}
          /\ DOMAIN env.globals \cap blocked = {}
          /\ FirstName(last.code) \in blocked \ {"open"} =>
                /\ last.res.exit_code = 1
                /\ last.res.stderr = "Traceback: NameError"
          /\ FirstName(last.code) = "open" =>
                last.res.stdout = Lines(0, <<"safe_open">>)

\* a fragment that names exec ended in a NameError
C23_Witness ==
    /\ C16_RunStep
    /\ FirstName(last.code) = "exec"
    /\ last.res.stderr = "Traceback: NameError"


\* C24: a create, delete, snapshot, restore or run_code call issued for one
\* of the workspaces "a" and "b" leaves the other as it was: its existence
\* and the contents of its tree.
C24_CallsDoNotInterfere ==
    [][\A other \in {RefA, RefB} :
         (/\ last'.op \in ManagerOps \cup {"run_code"}
          /\ last'.ref \in {RefA, RefB}
          /\ last'.ref # other) =>
            WorkspaceTree([d |-> dirs', f |-> files'], other)
              = WorkspaceTree(FsNow, other)]_vars


\* C25: delete(ref) and snapshot(ref) on a workspace that does not exist,
\* and restore(ref, key) on a key with no archive, fail with the not-found
\* error and leave the file system as it was; a restore with an unknown key
\* removes nothing of the current workspace.
C25_NotFoundLeavesAllUnchanged ==
    [][(\/ /\ last'.op \in {"delete", "snapshot"}
           /\ SafeWorkspacePath(last'.ref).ok
           /\ ~Exists(FsNow, Dir(last'.ref))
        \/ /\ last'.op = "restore"
           /\ ~Exists(FsNow, ArchivePath(last'.key))) =>
          /\ last'.exc = "FileNotFoundError"
          /\ dirs' = dirs
          /\ files' = files]_vars

\* a restore with an unknown key was refused and workspace "a" is still there
C25_Witness ==
    /\ last.op = "restore" /\ last.ref = RefA
    /\ last.exc = "FileNotFoundError" /\ last.proc = "none"
    /\ ~Exists(FsNow, ArchivePath(last.key))
    /\ Exists(FsNow, Append(Dir(RefA), README))


\* The git_status / git_diff call a fragment begins with.
FirstGit(code) ==
    IF code.ops # <<>> /\ Head(code.ops).k \in {"git_status", "git_diff"}
    THEN Head(code.ops).outcome ELSE "-"

\* C26: git_status and git_diff return normally whatever happens to the git
\* process (non-zero exit, timeout, missing binary): nothing is raised into
\* the fragment, and a failure is told by the text they return.
C26_GitPrimitivesNonFatal ==
    (C16_RunStep /\ IsDir(FsNow, RunDir(last.ref)) /\ FirstGit(last.code) # "-") =>
      /\ last.res.exit_code = 0
      /\ FirstGit(last.code) \in ProcFailures =>
            \E k \in 1..Len(last.res.stdout) : last.res.stdout[k].v # ""


\* A stream is blank when it holds nothing but spaces and newlines.
Blank(s) == \A k \in 1..Len(s) : s[k] \in {NL, SP}
\* The stream up to its last character that is not a space or newline.
UpToLastVisible(s) ==
    LET ks == {k \in 1..Len(s) : s[k] \notin {NL, SP}}
    IN  SubSeq(s, 1, CHOOSE k \in ks : \A j \in ks : j <= k)
BlankLine == <<NL, NL>>

\* C27: the observation of an Execution Result is, in this order and joined
\* by blank lines: the stdout section if stdout is not blank, the stderr
\* section if stderr is not blank, "(no output)" exactly when both are
\* blank, the exit_code line always, and the error_type line exactly when
\* error_type is not nil.
C27_ObservationLayout ==
    last.op = "observe" =>
      LET r == last.obs.of
          out == IF Blank(r.stdout) THEN <<>>
                 ELSE <<"stdout:", NL>> \o UpToLastVisible(r.stdout) \o BlankLine
          err == IF Blank(r.stderr) THEN <<>>
                 ELSE <<"stderr:", NL>> \o UpToLastVisible(r.stderr) \o BlankLine
          none == IF Blank(r.stdout) /\ Blank(r.stderr)
                  THEN <<"(no output)">> \o BlankLine ELSE <<>>
          exit == <<"exit_code: ", ToString(r.exit_code)>>
          kind == IF r.error_type = "None" THEN <<>>
                  ELSE BlankLine \o <<"error_type: ", r.error_type>>
      IN  last.obs.text = out \o err \o none \o exit \o kind

\* a result whose streams are whitespace only, observed as "(no output)"
C27_Witness ==
    /\ last.op = "observe"
    /\ last.obs.of.stdout = <<NL>> /\ last.obs.of.stderr = <<SP, NL>>
    /\ last.obs.of.error_type = "TIMEOUT"
    /\ last.obs.text = <<"(no output)", NL, NL, "exit_code: ", "1", NL, NL,
                         "error_type: ", "TIMEOUT">>


\* C28: when the benchmark runner has ended, results.json holds exactly one
\* outcome entry per selected task, in task order, whichever of the
\* submission, a status poll or the step retrieval failed or timed out.
C28_OneOutcomePerTask ==
    bench.pc \in {"exit", "crashed"} =>
        /\ bench.saved
        /\ Len(bench.file) = Len(bench.tasks)
        /\ \A k \in 1..Len(bench.tasks) : bench.file[k].task_id = bench.tasks[k]


\* C29: every path computed from caller input passes the traversal check
\* before the file system is touched: a restore whose snapshot_key resolves
\* outside the snapshots directory is rejected with the file system left as
\* it was, and so is a run_code whose workspace_ref leaves WORKSPACE_BASE.
C29_CallerPathsChecked ==
    /\ last.op = "restore" /\ ~Under(SNAPSHOTS_DIR, ArchivePath(last.key)) =>
           last.exc \in {"ValueError", "FileNotFoundError"} /\ ~last.touched
    /\ last.op = "run_code" /\ ~SafeWorkspacePath(last.ref).ok =>
           last.exc = "ValueError" /\ ~last.touched


\* C30: every Execution Result that run_code returns has exit_code 0 or 1
\* and error_type SYNTAX_ERROR, POLICY_VIOLATION, TIMEOUT or nil; exit_code
\* is 0 exactly when the fragment passed validation and ran to its normal
\* end before the wait timed out, and then error_type is nil; a
\* SYNTAX_ERROR or POLICY_VIOLATION result has empty stdout.
C30_ResultShape ==
    [][\A i \in Slots :
         call[i].pc # "returned" /\ call'[i].pc = "returned" =>
           LET r == call'[i].res
               code == call'[i].code
               completed == /\ ValidateImports(code) = "none"
                            /\ worker[i].pc = "finished"
                            /\ worker[i].end = "done"
           IN  /\ r.exit_code \in {0, 1}
               /\ r.error_type \in {"SYNTAX_ERROR", "POLICY_VIOLATION", "TIMEOUT", "None"}
               /\ (r.exit_code = 0) <=> completed
               /\ r.exit_code = 0 => r.error_type = "None"
               /\ r.error_type \in {"SYNTAX_ERROR", "POLICY_VIOLATION"} => r.stdout = <<>>]_vars

\* one call returned a success with output, the other was refused by policy
C30_Witness ==
    \E i, j \in Slots :
        /\ call[i].pc = "returned" /\ call[i].res.exit_code = 0
        /\ call[i].res.stdout # <<>>
        /\ call[j].pc = "returned" /\ call[j].res.error_type = "POLICY_VIOLATION"
        /\ call[j].res.exit_code = 1 /\ call[j].res.stdout = <<>>


\* the workspace of ref is there with the tree of its clone
CompleteWorkspace(ref) ==
    LET workspace_dir == SafeWorkspacePath(ref).path
    IN  IsDir(FsNow, workspace_dir) /\ Append(workspace_dir, README) \in DOMAIN files

\* C31: when two create calls for one workspace_ref both pass the existence
\* check before either has cloned, then once both have returned at most one
\* reports success, and if one does its complete workspace still exists.
C31_RacingCreatesKeepWinner ==
    \A c, d \in Creators :
        /\ c # d
        /\ creating[c].pc = "returned" /\ creating[d].pc = "returned"
        /\ creating[c].ref = creating[d].ref
        /\ creating[c].raced \/ creating[d].raced
        => /\ ~(creating[c].exc = "none" /\ creating[d].exc = "none")
           /\ creating[c].exc = "none" => CompleteWorkspace(creating[c].ref)


\* the tree below a workspace directory
TreeAt(fs, ws) == SubTree(fs, WORKSPACE_BASE, ws)

\* C32: with the calls for a workspace issued one after another, a fragment
\* whose run_code call has returned - also with TIMEOUT - writes nothing
\* more to its workspace, and no fragment is started on a workspace while
\* an earlier fragment is still executing against it.
C32_ReturnedFragmentIsQuiet ==
    [][/\ last'.op = "worker" =>
            \A i \in 1..Len(stranded) :
                TreeAt([d |-> dirs', f |-> files'], stranded[i].ws)
                    = TreeAt(FsNow, stranded[i].ws)
       /\ last'.op = "run_code" /\ last'.res # NoRes
          /\ ValidateImports(last'.code) = "none" =>
            \A i \in 1..Len(stranded) :
                stranded[i].ws # Resolve(JoinPath(WORKSPACE_BASE, last'.ref))]_vars


\* C33: the stdout a code action returns holds only what its own fragment
\* printed, and all of it when the fragment ran to its end, also when an
\* earlier code action had timed out before this one began and its
\* abandoned worker is still running and printing.
C33_StdoutOwnAfterTimeout ==
    \A j \in Slots :
        call[j].pc = "returned" /\ call[j].prior # {} =>
          /\ \A k \in 1..Len(call[j].res.stdout) : call[j].res.stdout[k].by = j
          /\ call[j].res.exit_code = 0 => call[j].res.stdout = OwnOutput(j)


\* the archives that a snapshot has completed
Archives(fs) ==
    {p \in DOMAIN fs.f : Under(SNAPSHOTS_DIR, p) /\ fs.f[p].kind = "tar"}

\* C34: an archive that snapshot() has written is immutable: no later
\* operation - snapshot, create, delete, restore or a code action, with any
\* workspace_ref and at any time - overwrites, alters or removes it.
C34_ArchiveImmutable ==
    [][\A p \in Archives(FsNow) : p \in DOMAIN files' /\ files'[p] = files[p]]_vars


\* create(ref) would now be refused with "already exists"
CountsAsExisting(fs, ref) ==
    CreateWorkspace(fs, ref, MainRef, GitOk).exc = "FileExistsError"

\* C35: a ref comes to count as existing for create only through a
\* successful create or restore of that ref: no failed call, no run_code
\* call and no fragment makes create(ref) answer "already exists".
C35_ExistingOnlyByCreateOrRestore ==
    [][\A ref \in {RefA, RefB} :
         CountsAsExisting([d |-> dirs', f |-> files'], ref)
         /\ ~CountsAsExisting(FsNow, ref)
         => /\ last'.op \in {"create", "restore"}
            /\ last'.exc = "none"
            /\ Dir(last'.ref) = Dir(ref)]_vars


\* C36: a fragment whose import statements all name allowlisted modules
\* passes validation and its imports execute in the restricted environment:
\* a fragment of allowlisted imports and nothing else returns exit_code 0.
C36_AllowedImportsRun ==
    (/\ last.op = "run_code" /\ last.res # NoRes
     /\ last.code.parse /\ last.code.imports # <<>>
     /\ EveryImportAllowed(last.code))
        => /\ last.res.error_type # "POLICY_VIOLATION"
           /\ last.res.stderr # Traceback("ImportError")
           /\ (last.code.ops = <<>> /\ last.code.end = "done") => last.res.exit_code = 0


\* C37: in the evaluation, pass_count is the number of rows displayed as
\* PASS, and every job counted in it has state DONE and a TESTER result
\* that reports a pass: no FAILED, TIMEOUT or SUBMIT_ERROR job is counted.
RowsShownPass == {k \in 1..Len(report.rows) : report.rows[k].shown = "PASS"}
RowsPassedAndDone ==
    {k \in 1..Len(report.rows) :
        report.rows[k].job_state = "DONE" /\ report.rows[k].test_passed}
C37_PassCountIsDonePasses ==
    report.pc \in {"rows", "saved"} =>
        /\ report.pass_count = Cardinality(RowsShownPass)
        /\ report.pass_count = Cardinality(RowsPassedAndDone)

====
